---------------------------- MODULE Spec2Model ----------------------------
(* subtidy: the tokenizer (get_token), the state-machine parser            *)
(* (process_source) and the layout engine (generate, generate_substitution,*)
(* generate_row) of src/subtidy/subtidy_lib.py, as one state machine.      *)
(*                                                                         *)
(* Text is a sequence of one-character strings; a file's content is one    *)
(* such sequence with "\n" characters in it.  Python values whose type the *)
(* code tests with isinstance carry a tag t: "None", "str", "list",        *)
(* "with_comment", "dict".                                                 *)
EXTENDS Integers, Sequences, FiniteSets, TLC

(***************************************************************************)
(* Bounds of the model.                                                    *)
(***************************************************************************)
\* lines of source text the tokenizer is given in one run
MaxLines == 4
\* columns and rows of the blocks generate is given directly
MaxCols == 3
MaxRows == 1

(***************************************************************************)
(* Python's str and list operations, as the code uses them.                *)
(***************************************************************************)
\* the characters str.strip / lstrip / rstrip remove that a line can hold
Whitespace == {" ", "\t"}

RECURSIVE lstrip(_)
lstrip(s) ==
    IF s # <<>> /\ Head(s) \in Whitespace THEN lstrip(Tail(s)) ELSE s

RECURSIVE rstrip(_)
rstrip(s) ==
    IF s # <<>> /\ s[Len(s)] \in Whitespace
    THEN rstrip(SubSeq(s, 1, Len(s) - 1)) ELSE s

strip(s) == lstrip(rstrip(s))

startswith(s, p) == Len(s) >= Len(p) /\ SubSeq(s, 1, Len(p)) = p

endswith(s, p) == Len(s) >= Len(p) /\ SubSeq(s, Len(s) - Len(p) + 1, Len(s)) = p

\* s.find(c, start): the 0-based index of the first c at or after start, or -1
find(s, c, start) ==
    LET hits == {k \in (start + 1)..Len(s) : s[k] = c}
    IN  IF hits = {} THEN -1
        ELSE (CHOOSE k \in hits : \A m \in hits : k <= m) - 1

\* s[:a] and s[a:]
upto(s, a) == SubSeq(s, 1, a)
from(s, a) == SubSeq(s, a + 1, Len(s))

\* n * ' '
spaces(n) == [k \in 1..n |-> " "]

Min(S) == CHOOSE x \in S : \A y \in S : x <= y
Max(S) == CHOOSE x \in S : \A y \in S : x >= y

\* c.isalnum() for the characters of ASCII
Alnum ==
    {"a","b","c","d","e","f","g","h","i","j","k","l","m","n","o","p","q","r",
     "s","t","u","v","w","x","y","z","A","B","C","D","E","F","G","H","I","J",
     "K","L","M","N","O","P","Q","R","S","T","U","V","W","X","Y","Z","0","1",
     "2","3","4","5","6","7","8","9"}

RECURSIVE Concat(_)
Concat(ss) == IF ss = <<>> THEN <<>> ELSE Head(ss) \o Concat(Tail(ss))

\* lines, each ended by a line break, as one text
Text(ls) == Concat([k \in 1..Len(ls) |-> ls[k] \o <<"\n">>])

\* text.splitlines() of a text whose only line break is "\n"
RECURSIVE splitlines(_)
splitlines(text) ==
    IF text = <<>> THEN <<>>
    ELSE LET n == find(text, "\n", 0)
         IN  IF n < 0 THEN <<text>>
             ELSE <<upto(text, n)>> \o splitlines(from(text, n + 1))

(***************************************************************************)
(* Tagged values (isinstance) and with_comment.                            *)
(***************************************************************************)
None == [t |-> "None"]
Str(s) == [t |-> "str", v |-> s]
List(l) == [t |-> "list", v |-> l]
with_comment(item, comment) ==
    [t |-> "with_comment", item |-> item, comment |-> comment]


(***************************************************************************)
(* State.                                                                  *)
(***************************************************************************)
VARIABLES
    \* get_token: the source's lines read so far, and the generator's locals
    lines, lineno, col, temp, size,
    gpc,        \* where the generator is suspended: "for", "while", "end"
    tok,        \* the tuple get_token has yielded and the parser not yet taken
    tokens,     \* every tuple yielded in this run, in order
    \* process_source: its locals
    state, result, template, comments, formal, actual, actual_row, eos_comment,
    warnings,   \* what warning() has written to stderr in this run
    error,      \* the exception that ended the run, or None
    \* generate: its arguments, the text written to target, the loop index
    indent, spacing, width, target, gi,
    pc,         \* "parse", "parsed", "generate", "done", "failed"
    pass,       \* 1: the source's lines are drawn as get_token reads them;
                \* 2: the run reads the text held in lines (the first run's
                \* output, or a file's content)
    first,      \* what the first run read, yielded, built and wrote
    sub_file,   \* the Document as process_source returned it
    \* main and process_argument: the files, the arguments, the for loop
    fs,         \* fs[f][0]: the content of file f; fs[f][1]: of f.~;
                \* fs[f][k + 1]: of f.k~ (k = 1..4); None: no such file
    filenames, argi, status,
    mpc,        \* where main is: "lib" (not called), "main", "stdin",
                \* "rotate", "copy", "open", "source", "target", "closed",
                \* "for", "returned"
    oplog       \* the calls of process_argument, the files opened for
                \* writing and the values returned, in order

genVars == <<lines, lineno, col, temp, size, gpc, tokens>>
parVars == <<state, result, template, comments, formal, actual, actual_row,
             eos_comment, warnings>>
outVars == <<indent, spacing, width, target, gi>>
mainVars == <<fs, filenames, argi, status, mpc, oplog>>
runVars == <<pass, first, sub_file, mainVars>>
vars == <<lines, lineno, col, temp, size, gpc, tok, tokens,
          state, result, template, comments, formal, actual, actual_row,
          eos_comment, warnings, error, indent, spacing, width, target, gi,
          pc, runVars>>

(***************************************************************************)
(* get_token                                                               *)
(***************************************************************************)
kw_file == <<"f", "i", "l", "e">>
kw_pattern == <<"p", "a", "t", "t", "e", "r", "n">>

Token(token, literal, l, c) ==
    [t |-> "tuple", token |-> token, literal |-> literal, lineno |-> l, col |-> c]

ParseError(l, c, msg) ==
    [t |-> "ParseError", lineno |-> l, col |-> c, msg |-> msg]

\* the lines the for loop may find next: any line of S while the source is
\* being drawn (pass 1), the next line of the text written by the first run
\* (pass 2)
NextLines(S) ==
    IF pass = 1
    THEN IF lineno < MaxLines THEN S ELSE {}
    ELSE IF lineno < Len(lines) THEN {lines[lineno + 1]} ELSE {}

\* the for loop finds no further line
AtEnd == pass = 1 \/ lineno = Len(lines)

\* a line that is empty or starts with '#' once its trailing blanks are off
IsCommentLineFromFirstColumn(line) ==
    LET t == rstrip(line) IN IF Len(t) = 0 THEN TRUE ELSE t[1] = "#"

\* a line that is blank or starts with '#' after stripping
IsCommentLine(line) ==
    LET t == strip(line) IN IF Len(t) = 0 THEN TRUE ELSE t[1] = "#"

\* for line in lines: ... a line that is tokenized; control enters the while
ForLine(S) ==
    /\ pc = "parse" /\ tok = None /\ gpc = "for"
    /\ \E line \in NextLines(S) :
        /\ ~IsCommentLine(line)
        /\ lines' = IF pass = 1 THEN Append(lines, line) ELSE lines
        /\ lineno' = lineno + 1
        /\ col' = 0
        /\ size' = Len(rstrip(line)) + 1
        /\ temp' = lstrip(rstrip(line))
        /\ gpc' = "while"
    /\ UNCHANGED <<tok, tokens, parVars, error, outVars, pc, runVars>>

\* for line in lines: ... a blank or comment line yielded as an end-of-line
\* comment
YieldCommentAsEolComment(S) ==
    /\ pc = "parse" /\ tok = None /\ gpc = "for"
    /\ \E line \in NextLines(S) :
        /\ IsCommentLine(line)
        /\ lines' = IF pass = 1 THEN Append(lines, line) ELSE lines
        /\ lineno' = lineno + 1
        /\ col' = 0
        /\ size' = Len(rstrip(line)) + 1
        /\ temp' = lstrip(rstrip(line))
        /\ tok' = Token("eol_comment", rstrip(line), lineno + 1, 0)
        /\ tokens' = Append(tokens, tok')
        /\ gpc' = "for"
    /\ UNCHANGED <<parVars, error, outVars, pc, runVars>>

\* for line in lines: ... a blank or comment line is yielded whole
YieldComment(S) ==
    /\ pc = "parse" /\ tok = None /\ gpc = "for"
    /\ \E line \in NextLines(S) :
        /\ IsCommentLine(line)
        /\ lines' = IF pass = 1 THEN Append(lines, line) ELSE lines
        /\ lineno' = lineno + 1
        /\ col' = 0
        /\ size' = Len(rstrip(line)) + 1
        /\ temp' = lstrip(rstrip(line))
        /\ tok' = Token("comment", rstrip(line), lineno + 1, 0)
        /\ tokens' = Append(tokens, tok')
        /\ gpc' = "for"
    /\ UNCHANGED <<parVars, error, outVars, pc, runVars>>

\* the branches of the while body without the test for a comma
BranchWithoutComma(s) ==
    IF startswith(s, <<"#">>) THEN "eol_comment"
    ELSE IF startswith(s, kw_file) THEN "file"
    ELSE IF startswith(s, kw_pattern) THEN "pattern"
    ELSE IF startswith(s, <<"{">>) THEN "open_brace"
    ELSE IF startswith(s, <<"}">>) THEN "close_brace"
    ELSE IF startswith(s, <<"\"">>) THEN "quoted"
    ELSE "bare"

\* the branch of the while body that temp selects
Branch(s) ==
    IF startswith(s, <<"#">>) THEN "eol_comment"
    ELSE IF startswith(s, kw_file) THEN "file"
    ELSE IF startswith(s, kw_pattern) THEN "pattern"
    ELSE IF startswith(s, <<"{">>) THEN "open_brace"
    ELSE IF startswith(s, <<"}">>) THEN "close_brace"
    ELSE IF startswith(s, <<",">>) THEN "comma"
    ELSE IF startswith(s, <<"\"">>) THEN "quoted"
    ELSE "bare"

\* yield (token, literal, lineno, col) with col = size - len(temp), then the
\* statements up to the next test of the while condition
Yield(token, literal, newtemp) ==
    /\ col' = size - Len(temp)
    /\ tok' = Token(token, literal, lineno, size - Len(temp))
    /\ tokens' = Append(tokens, tok')
    /\ temp' = newtemp
    /\ gpc' = IF Len(newtemp) > 0 THEN "while" ELSE "for"
    /\ UNCHANGED <<lines, lineno, size, parVars, error, outVars, pc, runVars>>

InWhile(branch) ==
    /\ pc = "parse" /\ tok = None /\ gpc = "while"
    /\ Branch(temp) = branch

YieldEolComment ==
    /\ InWhile("eol_comment")
    /\ Yield("eol_comment", rstrip(temp), <<>>)

YieldFile ==
    /\ InWhile("file")
    /\ Yield("file", <<>>, lstrip(from(temp, 4)))

YieldPattern ==
    /\ InWhile("pattern")
    /\ Yield("pattern", <<>>, lstrip(from(temp, 7)))

YieldOpenBrace ==
    /\ InWhile("open_brace")
    /\ Yield("open_brace", <<>>, lstrip(from(temp, 1)))

YieldCloseBrace ==
    /\ InWhile("close_brace")
    /\ Yield("close_brace", <<>>, lstrip(from(temp, 1)))

YieldComma ==
    /\ InWhile("comma")
    /\ Yield("comma", <<>>, lstrip(from(temp, 1)))

\* a quoted value: up to and including the next '"'
YieldQuoted ==
    /\ InWhile("quoted")
    /\ LET q == find(temp, "\"", 1)
       IN  /\ q >= 0
           /\ Yield("value", upto(temp, q + 1), lstrip(from(temp, q + 1)))

\* the missing quote reported with a column counted from 0
RaiseMissingQuoteFromZero ==
    /\ InWhile("quoted")
    /\ find(temp, "\"", 1) < 0
    /\ col' = size - Len(temp)
    /\ error' = ParseError(lineno, size - Len(temp) - 1, "value missing trailing \"")
    /\ pc' = "failed"
    /\ UNCHANGED <<lines, lineno, temp, size, gpc, tok, tokens, parVars,
                   outVars, runVars>>

\* a quoted value with no closing '"': raise ParseError
RaiseMissingQuote ==
    /\ InWhile("quoted")
    /\ find(temp, "\"", 1) < 0
    /\ col' = size - Len(temp)
    /\ error' = ParseError(lineno, size - Len(temp), "value missing trailing \"")
    /\ pc' = "failed"
    /\ UNCHANGED <<lines, lineno, temp, size, gpc, tok, tokens, parVars,
                   outVars, runVars>>

\* where a name or unquoted value ends: the nearest of ',', '{', '}', ' '
BareEnd(s) ==
    LET a(c) == IF find(s, c, 0) < 0 THEN Len(s) ELSE find(s, c, 0)
    IN  Min({a(","), a("{"), a("}"), a(" ")})

\* name if every character is alphanumeric or one of "_+-:", else value
BareToken(text) ==
    IF \E k \in 1..Len(text) :
           text[k] \notin Alnum /\ text[k] \notin {"_", "+", "-", ":"}
    THEN "value" ELSE "name"

YieldNameOrValue ==
    /\ InWhile("bare")
    /\ LET a == BareEnd(temp)
           text == rstrip(upto(temp, a))
       IN  Yield(BareToken(text), text, lstrip(from(temp, a)))

\* the end of file token placed on a line after the last one
YieldEndOfFileNextLine ==
    /\ pc = "parse" /\ tok = None /\ gpc = "for"
    /\ AtEnd
    /\ tok' = Token("end_of_file", <<>>, lineno + 1, 0)
    /\ tokens' = Append(tokens, tok')
    /\ gpc' = "end"
    /\ UNCHANGED <<lines, lineno, col, temp, size, parVars, error, outVars,
                   pc, runVars>>

\* after the last line: the explicit end of file token
YieldEndOfFile ==
    /\ pc = "parse" /\ tok = None /\ gpc = "for"
    /\ AtEnd
    /\ tok' = Token("end_of_file", <<>>, lineno, col)
    /\ tokens' = Append(tokens, tok')
    /\ gpc' = "end"
    /\ UNCHANGED <<lines, lineno, col, temp, size, parVars, error, outVars,
                   pc, runVars>>

(***************************************************************************)
(* process_source: one action per branch of the state/token dispatch.      *)
(***************************************************************************)
\* the for loop body runs on the tuple get_token yielded
Take(st, token) ==
    /\ pc = "parse" /\ tok # None
    /\ state = st /\ tok.token = token
    /\ tok' = None

\* list[index], which raises IndexError outside -len..len-1
InRange(list, index) == -Len(list) <= index /\ index < Len(list)
Item(list, index) ==
    IF index >= 0 THEN list[index + 1] ELSE list[Len(list) + index + 1]

\* warning(f"{source.name}:{lineno}:{col} {msg}")
Warn(msg, args) ==
    warnings' = Append(warnings, [lineno |-> tok.lineno, col |-> tok.col,
                                  msg |-> msg, args |-> args])

Raise(e) ==
    /\ error' = e
    /\ pc' = "failed"

SeekFileComment ==
    /\ Take("seek_file", "comment")
    /\ result' = Append(result, Str(tok.literal))
    /\ UNCHANGED <<state, template, comments, formal, actual, actual_row,
                   eos_comment, warnings, error, pc>>
    /\ UNCHANGED <<genVars, outVars, runVars>>

\* break: process_source returns result
SeekFileEndOfFile ==
    /\ Take("seek_file", "end_of_file")
    /\ pc' = "parsed"
    /\ sub_file' = List(result)
    /\ UNCHANGED <<parVars, error, genVars, outVars, pass, first, mainVars>>

SeekFileFile ==
    /\ Take("seek_file", "file")
    /\ comments' = List(<<>>)
    /\ formal' = List(<<>>)
    /\ actual' = List(<<>>)
    /\ state' = "start1"
    /\ UNCHANGED <<result, template, actual_row, eos_comment, warnings, error, pc>>
    /\ UNCHANGED <<genVars, outVars, runVars>>

\* last_item = result[len(result) - 1]; last_item['eos_comment'] = literal
SeekFileEolComment ==
    /\ Take("seek_file", "eol_comment")
    /\ LET last == Len(result) - 1
       IN  IF ~InRange(result, last)
           THEN Raise([t |-> "IndexError"]) /\ UNCHANGED result
           ELSE IF Item(result, last).t # "dict"
           THEN Raise([t |-> "TypeError"]) /\ UNCHANGED result
           ELSE /\ result' = [result EXCEPT ![last + 1].eos_comment = Str(tok.literal)]
                /\ UNCHANGED <<error, pc>>
    /\ UNCHANGED <<state, template, comments, formal, actual, actual_row,
                   eos_comment, warnings>>
    /\ UNCHANGED <<genVars, outVars, runVars>>

Start1Value ==
    /\ Take("start1", "value")
    /\ template' = Str(tok.literal)
    /\ state' = "start2"
    /\ UNCHANGED <<result, comments, formal, actual, actual_row, eos_comment,
                   warnings, error, pc>>
    /\ UNCHANGED <<genVars, outVars, runVars>>

Start2OpenBrace ==
    /\ Take("start2", "open_brace")
    /\ state' = "seek_pattern"
    /\ UNCHANGED <<result, template, comments, formal, actual, actual_row,
                   eos_comment, warnings, error, pc>>
    /\ UNCHANGED <<genVars, outVars, runVars>>

SeekPatternEolComment ==
    /\ Take("seek_pattern", "eol_comment")
    /\ template' = with_comment(template, tok.literal)
    /\ UNCHANGED <<state, result, comments, formal, actual, actual_row,
                   eos_comment, warnings, error, pc>>
    /\ UNCHANGED <<genVars, outVars, runVars>>

SeekPatternComment ==
    /\ Take("seek_pattern", "comment")
    /\ comments' = List(Append(comments.v, tok.literal))
    /\ UNCHANGED <<state, result, template, formal, actual, actual_row,
                   eos_comment, warnings, error, pc>>
    /\ UNCHANGED <<genVars, outVars, runVars>>

SeekPatternPattern ==
    /\ Take("seek_pattern", "pattern")
    /\ state' = "start_formal"
    /\ UNCHANGED <<result, template, comments, formal, actual, actual_row,
                   eos_comment, warnings, error, pc>>
    /\ UNCHANGED <<genVars, outVars, runVars>>

StartFormalOpenBrace ==
    /\ Take("start_formal", "open_brace")
    /\ state' = "seek_name"
    /\ UNCHANGED <<result, template, comments, formal, actual, actual_row,
                   eos_comment, warnings, error, pc>>
    /\ UNCHANGED <<genVars, outVars, runVars>>

SeekNameName ==
    /\ Take("seek_name", "name")
    /\ formal' = List(Append(formal.v, tok.literal))
    /\ state' = "post_name"
    /\ UNCHANGED <<result, template, comments, actual, actual_row, eos_comment,
                   warnings, error, pc>>
    /\ UNCHANGED <<genVars, outVars, runVars>>

\* last_name = formal[len(formal) - 1], then the warning
SeekNameComma ==
    /\ Take("seek_name", "comma")
    /\ LET last == Len(formal.v) - 1
       IN  IF ~InRange(formal.v, last)
           THEN Raise([t |-> "IndexError"]) /\ UNCHANGED <<warnings, state>>
           ELSE /\ Warn("extra comma following macro name removed",
                        <<Item(formal.v, last)>>)
                /\ state' = "seek_name"
                /\ UNCHANGED <<error, pc>>
    /\ UNCHANGED <<result, template, comments, formal, actual, actual_row,
                   eos_comment>>
    /\ UNCHANGED <<genVars, outVars, runVars>>

\* the closing brace after a comma in the formal list, taken without a warning
SeekNameCloseBraceUnwarned ==
    /\ Take("seek_name", "close_brace")
    /\ LET last == Len(formal.v) - 1
       IN  IF ~InRange(formal.v, last)
           THEN Raise([t |-> "IndexError"]) /\ UNCHANGED <<warnings, state>>
           ELSE /\ state' = "start_actual_first"
                /\ UNCHANGED <<warnings, error, pc>>
    /\ UNCHANGED <<result, template, comments, formal, actual, actual_row,
                   eos_comment>>
    /\ UNCHANGED <<genVars, outVars, runVars>>

SeekNameCloseBrace ==
    /\ Take("seek_name", "close_brace")
    /\ LET last == Len(formal.v) - 1
       IN  IF ~InRange(formal.v, last)
           THEN Raise([t |-> "IndexError"]) /\ UNCHANGED <<warnings, state>>
           ELSE /\ Warn("extra comma following macro name removed",
                        <<Item(formal.v, last)>>)
                /\ state' = "start_actual_first"
                /\ UNCHANGED <<error, pc>>
    /\ UNCHANGED <<result, template, comments, formal, actual, actual_row,
                   eos_comment>>
    /\ UNCHANGED <<genVars, outVars, runVars>>

PostNameName ==
    /\ Take("post_name", "name")
    /\ LET last == Len(formal.v) - 1
       IN  IF ~InRange(formal.v, last)
           THEN Raise([t |-> "IndexError"]) /\ UNCHANGED <<warnings, formal, state>>
           ELSE /\ Warn("missing comma between macro names",
                        <<Item(formal.v, last), tok.literal>>)
                /\ formal' = List(Append(formal.v, tok.literal))
                /\ state' = "post_name"
                /\ UNCHANGED <<error, pc>>
    /\ UNCHANGED <<result, template, comments, actual, actual_row, eos_comment>>
    /\ UNCHANGED <<genVars, outVars, runVars>>

PostNameComma ==
    /\ Take("post_name", "comma")
    /\ state' = "seek_name"
    /\ UNCHANGED <<result, template, comments, formal, actual, actual_row,
                   eos_comment, warnings, error, pc>>
    /\ UNCHANGED <<genVars, outVars, runVars>>

PostNameCloseBrace ==
    /\ Take("post_name", "close_brace")
    /\ state' = "start_actual_first"
    /\ UNCHANGED <<result, template, comments, formal, actual, actual_row,
                   eos_comment, warnings, error, pc>>
    /\ UNCHANGED <<genVars, outVars, runVars>>

StartActualFirstEolComment ==
    /\ Take("start_actual_first", "eol_comment")
    /\ formal' = with_comment(formal, tok.literal)
    /\ UNCHANGED <<state, result, template, comments, actual, actual_row,
                   eos_comment, warnings, error, pc>>
    /\ UNCHANGED <<genVars, outVars, runVars>>

\* last_row = actual[len(actual) - 1]; actual[last] = with_comment(last_row, literal)
StartActualNextEolComment ==
    /\ Take("start_actual_next", "eol_comment")
    /\ LET last == Len(actual.v) - 1
       IN  IF ~InRange(actual.v, last)
           THEN Raise([t |-> "IndexError"]) /\ UNCHANGED actual
           ELSE /\ actual' = List([actual.v EXCEPT ![last + 1] =
                                      with_comment(Item(actual.v, last), tok.literal)])
                /\ UNCHANGED <<error, pc>>
    /\ UNCHANGED <<state, result, template, comments, formal, actual_row,
                   eos_comment, warnings>>
    /\ UNCHANGED <<genVars, outVars, runVars>>

StartActualFirstComment ==
    /\ Take("start_actual_first", "comment")
    /\ actual' = List(Append(actual.v, Str(tok.literal)))
    /\ UNCHANGED <<state, result, template, comments, formal, actual_row,
                   eos_comment, warnings, error, pc>>
    /\ UNCHANGED <<genVars, outVars, runVars>>

\* actual.insert(0, literal): the comment line put before the rows read so far
StartActualNextCommentFirst ==
    /\ Take("start_actual_next", "comment")
    /\ actual' = List(<<Str(tok.literal)>> \o actual.v)
    /\ UNCHANGED <<state, result, template, comments, formal, actual_row,
                   eos_comment, warnings, error, pc>>
    /\ UNCHANGED <<genVars, outVars, runVars>>

StartActualNextComment ==
    /\ Take("start_actual_next", "comment")
    /\ actual' = List(Append(actual.v, Str(tok.literal)))
    /\ UNCHANGED <<state, result, template, comments, formal, actual_row,
                   eos_comment, warnings, error, pc>>
    /\ UNCHANGED <<genVars, outVars, runVars>>

StartActualOpenBrace ==
    /\ \/ Take("start_actual_first", "open_brace")
       \/ Take("start_actual_next", "open_brace")
    /\ actual_row' = List(<<>>)
    /\ state' = "seek_value"
    /\ UNCHANGED <<result, template, comments, formal, actual, eos_comment,
                   warnings, error, pc>>
    /\ UNCHANGED <<genVars, outVars, runVars>>

SeekValueValue ==
    /\ \/ Take("seek_value", "value")
       \/ Take("seek_value", "name")
    /\ actual_row' = List(Append(actual_row.v, tok.literal))
    /\ state' = "post_value"
    /\ UNCHANGED <<result, template, comments, formal, actual, eos_comment,
                   warnings, error, pc>>
    /\ UNCHANGED <<genVars, outVars, runVars>>

SeekValueComma ==
    /\ Take("seek_value", "comma")
    /\ LET last == Len(actual_row.v) - 1
       IN  IF ~InRange(actual_row.v, last)
           THEN Raise([t |-> "IndexError"]) /\ UNCHANGED <<warnings, state>>
           ELSE /\ Warn("extra comma following value removed",
                        <<Item(actual_row.v, last)>>)
                /\ state' = "seek_value"
                /\ UNCHANGED <<error, pc>>
    /\ UNCHANGED <<result, template, comments, formal, actual, actual_row,
                   eos_comment>>
    /\ UNCHANGED <<genVars, outVars, runVars>>

SeekValueCloseBrace ==
    /\ Take("seek_value", "close_brace")
    /\ LET last == Len(actual_row.v) - 1
       IN  IF ~InRange(actual_row.v, last)
           THEN /\ Raise([t |-> "IndexError"])
                /\ UNCHANGED <<warnings, actual, actual_row, state>>
           ELSE /\ Warn("extra comma following value removed",
                        <<Item(actual_row.v, last)>>)
                /\ actual' = List(Append(actual.v, actual_row))
                /\ actual_row' = None
                /\ state' = "start_actual_next"
                /\ UNCHANGED <<error, pc>>
    /\ UNCHANGED <<result, template, comments, formal, eos_comment>>
    /\ UNCHANGED <<genVars, outVars, runVars>>

PostValueValue ==
    /\ \/ Take("post_value", "value")
       \/ Take("post_value", "name")
    /\ LET last == Len(actual_row.v) - 1
       IN  IF ~InRange(actual_row.v, last)
           THEN Raise([t |-> "IndexError"]) /\ UNCHANGED <<warnings, actual_row, state>>
           ELSE /\ Warn("missing comma between values",
                        <<Item(actual_row.v, last), tok.literal>>)
                /\ actual_row' = List(Append(actual_row.v, tok.literal))
                /\ state' = "post_value"
                /\ UNCHANGED <<error, pc>>
    /\ UNCHANGED <<result, template, comments, formal, actual, eos_comment>>
    /\ UNCHANGED <<genVars, outVars, runVars>>

PostValueComma ==
    /\ Take("post_value", "comma")
    /\ state' = "seek_value"
    /\ UNCHANGED <<result, template, comments, formal, actual, actual_row,
                   eos_comment, warnings, error, pc>>
    /\ UNCHANGED <<genVars, outVars, runVars>>

PostValueCloseBrace ==
    /\ Take("post_value", "close_brace")
    /\ actual' = List(Append(actual.v, actual_row))
    /\ actual_row' = None
    /\ state' = "start_actual_next"
    /\ UNCHANGED <<result, template, comments, formal, eos_comment, warnings,
                   error, pc>>
    /\ UNCHANGED <<genVars, outVars, runVars>>

\* the block is complete: append the dictionary to result
StartActualCloseBrace ==
    /\ \/ Take("start_actual_first", "close_brace")
       \/ Take("start_actual_next", "close_brace")
    /\ result' = Append(result, [t |-> "dict",
                                 template |-> template,
                                 comments |-> comments,
                                 formal |-> formal,
                                 actual |-> actual,
                                 eos_comment |-> eos_comment])
    /\ template' = None
    /\ comments' = None
    /\ formal' = None
    /\ actual' = None
    /\ eos_comment' = None
    /\ state' = "seek_file"
    /\ UNCHANGED <<actual_row, warnings, error, pc>>
    /\ UNCHANGED <<genVars, outVars, runVars>>

\* the state/token pairs the dispatch names
Transitions ==
    {<<"seek_file", "comment">>, <<"seek_file", "end_of_file">>,
     <<"seek_file", "file">>, <<"seek_file", "eol_comment">>,
     <<"start1", "value">>, <<"start2", "open_brace">>,
     <<"seek_pattern", "eol_comment">>, <<"seek_pattern", "comment">>,
     <<"seek_pattern", "pattern">>, <<"start_formal", "open_brace">>,
     <<"seek_name", "name">>, <<"seek_name", "comma">>,
     <<"seek_name", "close_brace">>, <<"post_name", "name">>,
     <<"post_name", "comma">>, <<"post_name", "close_brace">>,
     <<"start_actual_first", "eol_comment">>,
     <<"start_actual_next", "eol_comment">>,
     <<"start_actual_first", "comment">>, <<"start_actual_next", "comment">>,
     <<"start_actual_first", "open_brace">>,
     <<"start_actual_next", "open_brace">>,
     <<"seek_value", "value">>, <<"seek_value", "name">>,
     <<"seek_value", "comma">>, <<"seek_value", "close_brace">>,
     <<"post_value", "value">>, <<"post_value", "name">>,
     <<"post_value", "comma">>, <<"post_value", "close_brace">>,
     <<"start_actual_first", "close_brace">>,
     <<"start_actual_next", "close_brace">>}

\* else: the token is dropped and the loop goes on
UnexpectedSkipped ==
    /\ pc = "parse" /\ tok # None
    /\ <<state, tok.token>> \notin Transitions
    /\ tok' = None
    /\ UNCHANGED <<parVars, error, pc, genVars, outVars, runVars>>

\* else: raise ParseError("unexpected state/token combination")
Unexpected ==
    /\ pc = "parse" /\ tok # None
    /\ <<state, tok.token>> \notin Transitions
    /\ tok' = None
    /\ Raise([t |-> "ParseError", lineno |-> tok.lineno, col |-> tok.col,
              msg |-> "unexpected state/token combination",
              state |-> state, token |-> tok.token])
    /\ UNCHANGED <<parVars, genVars, outVars, runVars>>

(***************************************************************************)
(* quote_str, generate_row, generate_substitution, generate                *)
(***************************************************************************)
\* quote_str(value)
quote_str(value) ==
    IF ~startswith(value, <<"\"">>) /\ ~endswith(value, <<"\"">>)
    THEN <<"\"">> \o value \o <<"\"">>
    ELSE value

\* one iteration of generate_row's loop that writes no padding after the name
AfterNameUnpadded(name, j, number, widths, prefix, gapspaces, newlines) ==
    (IF j < number - 1 THEN <<",">> \o gapspaces ELSE <<>>)
    \o (IF j \in newlines /\ j < number - 1
        THEN <<"\n">> \o spaces(Len(prefix)) \o spaces(3)
        ELSE <<>>)

\* what one iteration j (0-based) of generate_row's loop writes after the name
AfterName(name, j, number, widths, prefix, gapspaces, newlines) ==
    LET gap == spaces(Max({0, widths[j + 1] - Len(name)}))
    IN  (IF j < number - 1 THEN <<",">> \o gapspaces ELSE <<>>)
        \o (IF j \in newlines /\ j < number - 1
            THEN <<"\n">> \o spaces(Len(prefix)) \o spaces(3)
            ELSE gap)

\* generate_row's loop after an opening brace written without the blanks
\* around it
RECURSIVE RowUpToBareBrace(_, _, _, _, _, _)
RowUpToBareBrace(names, j, widths, prefix, gapspaces, newlines) ==
    IF j = 0 THEN prefix \o <<"{">>
    ELSE RowUpToBareBrace(names, j - 1, widths, prefix, gapspaces, newlines)
         \o names[j]
         \o AfterName(names[j], j - 1, Len(names), widths, prefix, gapspaces, newlines)

\* what generate_row has written when its loop reaches iteration j:
\* the prefix, " { ", and the names before j with what follows each
RECURSIVE RowUpTo(_, _, _, _, _, _)
RowUpTo(names, j, widths, prefix, gapspaces, newlines) ==
    IF j = 0 THEN prefix \o <<" ", "{", " ">>
    ELSE RowUpTo(names, j - 1, widths, prefix, gapspaces, newlines)
         \o names[j]
         \o AfterName(names[j], j - 1, Len(names), widths, prefix, gapspaces, newlines)

\* the list inside a formal or actual row, with or without trailing comment
Unwrap(item) == IF item.t = "with_comment" THEN item.item.v ELSE item.v

\* generate_row that writes no trailing comment
generate_row_uncommented(item, widths, prefix, gapspaces, newlines) ==
    LET names == Unwrap(item)
    IN  RowUpTo(names, Len(names), widths, prefix, gapspaces, newlines)
        \o <<" ", "}", "\n">>

\* generate_row(item, target, widths, prefix, spaces, newlines): the text written
generate_row(item, widths, prefix, gapspaces, newlines) ==
    LET c == IF item.t = "with_comment" THEN Str(item.comment) ELSE None
        names == Unwrap(item)
    IN  RowUpTo(names, Len(names), widths, prefix, gapspaces, newlines)
        \o (IF c = None THEN <<" ", "}">> ELSE <<" ", "}", " ", " ">> \o c.v)
        \o <<"\n">>

\* raise ValueError(f"{row} has {n} items, {number} expected")
ValueError(row, n, number) ==
    [t |-> "ValueError", row |-> row, n |-> n, number |-> number]

\* the loop over actual with the two counts of the error exchanged
RECURSIVE MeasureRowsCountsExchanged(_, _, _, _)
MeasureRowsCountsExchanged(act, k, number, widths) ==
    IF k > Len(act) THEN [actual |-> act, widths |-> widths, error |-> None]
    ELSE LET row == act[k]
         IN  IF row.t = "str"
             THEN MeasureRowsCountsExchanged(act, k + 1, number, widths)
             ELSE LET list == IF row.t = "with_comment" THEN row.item.v ELSE row.v
                      n == Len(list)
                      quoted == [j \in 1..n |-> quote_str(list[j])]
                      kept == IF row.t = "with_comment"
                              THEN with_comment(List(quoted), row.comment)
                              ELSE List(quoted)
                  IN  IF n # number
                      THEN [actual |-> act, widths |-> widths,
                            error |-> ValueError(list, number, n)]
                      ELSE MeasureRowsCountsExchanged([act EXCEPT ![k] = kept],
                               k + 1, number,
                               [j \in 1..n |-> Max({widths[j], Len(quoted[j])})])

\* the loop over actual (lines 145-161) from entry k on: each value of each
\* row is quoted in place and widens its column; a row of another length
\* than the formal row raises
RECURSIVE MeasureRows(_, _, _, _)
MeasureRows(act, k, number, widths) ==
    IF k > Len(act) THEN [actual |-> act, widths |-> widths, error |-> None]
    ELSE LET row == act[k]
         IN  IF row.t = "str" THEN MeasureRows(act, k + 1, number, widths)
             ELSE LET list == IF row.t = "with_comment" THEN row.item.v ELSE row.v
                      n == Len(list)
                      quoted == [j \in 1..n |-> quote_str(list[j])]
                      kept == IF row.t = "with_comment"
                              THEN with_comment(List(quoted), row.comment)
                              ELSE List(quoted)
                  IN  IF n # number
                      THEN [actual |-> act, widths |-> widths,
                            error |-> ValueError(list, n, number)]
                      ELSE MeasureRows([act EXCEPT ![k] = kept], k + 1, number,
                               [j \in 1..n |-> Max({widths[j], Len(quoted[j])})])

\* the column indexes after which a line break is required (lines 166-172)
RECURSIVE Newlines(_, _, _, _, _)
Newlines(widths, j, total, gap, maxwidth) ==
    IF j >= Len(widths) THEN {}
    ELSE LET t == total + widths[j + 1] + gap + 1
         IN  IF t > maxwidth
             THEN {j} \cup Newlines(widths, j + 1, 10, gap, maxwidth)
             ELSE Newlines(widths, j + 1, t, gap, maxwidth)

\* a comment line re-indented: lstrip and n spaces if it starts with a space
Reindent(c, n) ==
    IF startswith(c, <<" ">>) THEN spaces(n) \o lstrip(c) ELSE c

RECURSIVE CommentLines(_, _)
CommentLines(cs, n) ==
    IF cs = <<>> THEN <<>>
    ELSE Reindent(Head(cs), n) \o <<"\n">> \o CommentLines(Tail(cs), n)

RECURSIVE ActualLines(_, _, _, _, _)
ActualLines(act, widths, prefix, gapspaces, newlines) ==
    IF act = <<>> THEN <<>>
    ELSE (IF Head(act).t = "str"
          THEN Reindent(Head(act).v, 12) \o <<"\n">>
          ELSE generate_row(Head(act), widths, prefix, gapspaces, newlines))
         \o ActualLines(Tail(act), widths, prefix, gapspaces, newlines)

\* the widths started from 0 instead of the lengths of the formal names
MeasureFromZero(d) ==
    LET f2 == Unwrap(d.formal)
    IN  MeasureRows(d.actual.v, 1, Len(f2), [j \in 1..Len(f2) |-> 0])

\* lines 132-161: widths start from the formal names' lengths, then the loop
\* over actual
Measure(d) ==
    LET f2 == Unwrap(d.formal)
    IN  MeasureRows(d.actual.v, 1, Len(f2), [j \in 1..Len(f2) |-> Len(f2[j])])

\* generate_substitution(d, target, indent, spacing, width): the dictionary
\* as the call leaves it, the text written to target, the exception raised
generate_substitution(d, ind, gap, maxwidth) ==
    LET i == spaces(ind)
        s == spaces(gap)
        m == Measure(d)
        newlines == Newlines(m.widths, 0, 10, gap, maxwidth)
        head == IF d.template.t = "with_comment"
                THEN kw_file \o <<" ">> \o quote_str(d.template.item.v)
                     \o <<" ", "{", " ", " ">> \o d.template.comment \o <<"\n">>
                ELSE kw_file \o <<" ">> \o quote_str(d.template.v)
                     \o <<" ", "{", "\n">>
        foot == IF d.eos_comment = None THEN <<"}", "\n">>
                ELSE <<"}", " ", " ">> \o d.eos_comment.v \o <<"\n">>
    IN  [d |-> [d EXCEPT !.actual = List(m.actual)],
         error |-> m.error,
         text |-> IF m.error # None THEN <<>>
                  ELSE head
                       \o CommentLines(d.comments.v, 4)
                       \o generate_row(d.formal, m.widths, i \o kw_pattern, s, newlines)
                       \o ActualLines(m.actual, m.widths, i \o spaces(7), s, newlines)
                       \o foot]

\* process: generate(sub_file, target, indent, spacing, width) is called
\* with the layout parameters of this run (drawn on the first run, the same
\* on the second)
CallGenerate(P) ==
    /\ pc = "parsed"
    /\ \E l \in (IF pass = 1 THEN P ELSE {<<indent, spacing, width>>}) :
        /\ indent' = l[1]
        /\ spacing' = l[2]
        /\ width' = l[3]
    /\ target' = <<>>
    /\ gi' = 0
    /\ pc' = "generate"
    /\ UNCHANGED <<genVars, tok, parVars, error, runVars>>

\* for item in source: a string is printed stripped
GenerateStr ==
    /\ pc = "generate" /\ gi < Len(result)
    /\ result[gi + 1].t = "str"
    /\ target' = target \o strip(result[gi + 1].v) \o <<"\n">>
    /\ gi' = gi + 1
    /\ UNCHANGED <<genVars, tok, parVars, error, indent, spacing, width, pc, runVars>>

\* for item in source: a dictionary goes to generate_substitution, which
\* writes the block
GenerateDict ==
    /\ pc = "generate" /\ gi < Len(result)
    /\ result[gi + 1].t = "dict"
    /\ LET g == generate_substitution(result[gi + 1], indent, spacing, width)
       IN  /\ g.error = None
           /\ result' = [result EXCEPT ![gi + 1] = g.d]
           /\ target' = target \o g.text
    /\ gi' = gi + 1
    /\ UNCHANGED <<genVars, tok, state, template, comments, formal, actual,
                   actual_row, eos_comment, warnings, error, indent, spacing,
                   width, pc, runVars>>

\* ... or raises ValueError, which ends generate
GenerateDictRaise ==
    /\ pc = "generate" /\ gi < Len(result)
    /\ result[gi + 1].t = "dict"
    /\ LET g == generate_substitution(result[gi + 1], indent, spacing, width)
       IN  /\ g.error # None
           /\ result' = [result EXCEPT ![gi + 1] = g.d]
           /\ Raise(g.error)
    /\ UNCHANGED <<genVars, tok, state, template, comments, formal, actual,
                   actual_row, eos_comment, warnings, outVars, runVars>>

\* the loop over source ends: generate returns
GenerateReturn ==
    /\ pc = "generate" /\ gi = Len(result)
    /\ pc' = "done"
    /\ UNCHANGED <<genVars, tok, parVars, error, outVars, runVars>>

\* the text the first run wrote is given to process as the source of a
\* second run, with the same layout parameters
Rerun ==
    /\ pc = "done" /\ pass = 1
    /\ first' = [lines |-> lines, tokens |-> tokens, sub_file |-> sub_file,
                 result |-> result, warnings |-> warnings, target |-> target]
    /\ pass' = 2
    /\ lines' = splitlines(target)
    /\ lineno' = 0 /\ col' = 0 /\ temp' = <<>> /\ size' = 0
    /\ gpc' = "for" /\ tok' = None /\ tokens' = <<>>
    /\ state' = "seek_file" /\ result' = <<>>
    /\ template' = None /\ comments' = None /\ formal' = None
    /\ actual' = None /\ actual_row' = None /\ eos_comment' = None
    /\ warnings' = <<>>
    /\ target' = <<>> /\ gi' = 0
    /\ sub_file' = None
    /\ pc' = "parse"
    /\ UNCHANGED <<error, indent, spacing, width, mainVars>>

(***************************************************************************)
(* The source lines and layout parameters the runs are checked on.         *)
(***************************************************************************)
\* words joined by single spaces
RECURSIVE Words(_)
Words(ws) ==
    IF ws = <<>> THEN <<>>
    ELSE IF Len(ws) = 1 THEN ws[1]
    ELSE ws[1] \o <<" ">> \o Words(Tail(ws))

OB == <<"{">>
CB == <<"}">>
NameX == <<"X">>
NameY == <<"Y">>
CommaAfter(w) == w \o <<",">>
Quoted1 == <<"\"", "1", "\"">>
Quoted2 == <<"\"", "2", "\"">>
QuotedDb == <<"\"", "a", ".", "d", "b", "\"">>
BareDb == <<"a", ".", "d", "b">>
BareInnerQuote == <<"a", "\"", "b">>
BareEndQuote == <<"b", "\"">>
Bare1 == <<"1">>
Bare22 == <<"2", "2">>
CommentC == <<"#", " ", "c">>
CommentD == <<"#", "d">>

SourceLines ==
    { <<>>,
      CommentC,
      spaces(2) \o CommentD \o spaces(1),
      Words(<<kw_file, QuotedDb, OB>>),
      Words(<<kw_file, BareDb, OB>>) \o spaces(2) \o CommentC,
      Words(<<kw_file, QuotedDb, OB, kw_pattern, OB, CommaAfter(NameX), NameY, CB>>),
      spaces(1) \o Words(<<kw_pattern, OB, CommaAfter(NameX), NameY, CB>>),
      Words(<<kw_pattern, OB, CommaAfter(NameX), NameY, CB>>) \o spaces(1) \o CommentD,
      Words(<<kw_pattern, OB, CommaAfter(NameX), CommaAfter(NameY), CB>>),
      Words(<<kw_pattern, OB, NameX, NameY, CB>>),
      Words(<<kw_pattern, OB, CB>>),
      Words(<<kw_pattern, OB, <<",">>, NameX, CB>>),
      spaces(1) \o Words(<<OB, CommaAfter(Quoted1), Quoted2, CB>>),
      Words(<<OB, CommaAfter(Bare1), Bare22, CB>>) \o spaces(1) \o CommentC,
      Words(<<OB, CommaAfter(BareInnerQuote), BareEndQuote, CB>>),
      Words(<<OB, CommaAfter(Quoted1), CommaAfter(Bare22), CB>>),
      Words(<<OB, Quoted1, CB>>),
      Words(<<OB, CB>>),
      Words(<<OB, CommaAfter(CommaAfter(Bare1)), Quoted2, CB>>),
      Words(<<OB, <<"\"", "A", ",">>, <<"B">>, CB>>),
      Words(<<OB, CommaAfter(Quoted1), Bare22, CB, CB>>),
      CB,
      CB \o spaces(2) \o CommentD }

\* (indent, spacing, width)
Layouts == { <<4, 2, 120>>, <<1, 3, 14>> }

(***************************************************************************)
(* The pipeline: process on a source, then process on what it wrote.       *)
(***************************************************************************)
\* subtidy_lib used as a library: main is not called
NoMain ==
    /\ fs = <<>> /\ filenames = <<>> /\ argi = 0 /\ status = 0
    /\ mpc = "lib" /\ oplog = <<>>

Init ==
    /\ NoMain
    /\ lines = <<>> /\ lineno = 0 /\ col = 0 /\ temp = <<>> /\ size = 0
    /\ gpc = "for" /\ tok = None /\ tokens = <<>>
    /\ state = "seek_file" /\ result = <<>>
    /\ template = None /\ comments = None /\ formal = None
    /\ actual = None /\ actual_row = None /\ eos_comment = None
    /\ warnings = <<>> /\ error = None
    /\ indent = 0 /\ spacing = 0 /\ width = 0 /\ target = <<>> /\ gi = 0
    /\ pc = "parse" /\ pass = 1 /\ first = None /\ sub_file = None

Tokenize(S) ==
    \/ ForLine(S)
    \/ YieldComment(S)
    \/ YieldEolComment
    \/ YieldFile
    \/ YieldPattern
    \/ YieldOpenBrace
    \/ YieldCloseBrace
    \/ YieldComma
    \/ YieldQuoted
    \/ RaiseMissingQuote
    \/ YieldNameOrValue
    \/ YieldEndOfFile

Parse ==
    \/ SeekFileComment
    \/ SeekFileEndOfFile
    \/ SeekFileFile
    \/ SeekFileEolComment
    \/ Start1Value
    \/ Start2OpenBrace
    \/ SeekPatternEolComment
    \/ SeekPatternComment
    \/ SeekPatternPattern
    \/ StartFormalOpenBrace
    \/ SeekNameName
    \/ SeekNameComma
    \/ SeekNameCloseBrace
    \/ PostNameName
    \/ PostNameComma
    \/ PostNameCloseBrace
    \/ StartActualFirstEolComment
    \/ StartActualNextEolComment
    \/ StartActualFirstComment
    \/ StartActualNextComment
    \/ StartActualOpenBrace
    \/ SeekValueValue
    \/ SeekValueComma
    \/ SeekValueCloseBrace
    \/ PostValueValue
    \/ PostValueComma
    \/ PostValueCloseBrace
    \/ StartActualCloseBrace
    \/ Unexpected

Generate ==
    \/ GenerateStr
    \/ GenerateDict
    \/ GenerateDictRaise
    \/ GenerateReturn

Next ==
    \/ Tokenize(SourceLines)
    \/ Parse
    \/ CallGenerate(Layouts)
    \/ Generate
    \/ Rerun

Spec == Init /\ [][Next]_vars

(***************************************************************************)
(* generate on Documents given directly, with the layout parameters the    *)
(* command line accepts.                                                   *)
(***************************************************************************)
LongName == [k \in 1..24 |-> "N"]
LongValue == <<"\"">> \o [k \in 1..24 |-> "v"] \o <<"\"">>
Names == {NameX, LongName}
Values == {Bare1, LongValue}

\* the rows of a block of n columns: n values, or one fewer
RowsOf(n) ==
    UNION {[1..m -> Values] : m \in {n, n - 1} \ {0}}

\* a block as process_source builds it: with every trailing comment, a block
\* comment and a comment line before the rows (annotated), or with none
Block(names, rows, annotated) ==
    LET row(k) == IF annotated THEN with_comment(List(rows[k]), CommentC)
                  ELSE List(rows[k])
    IN  [t |-> "dict",
         template |-> IF annotated THEN with_comment(Str(BareDb), CommentC)
                      ELSE Str(BareDb),
         comments |-> List(IF annotated THEN <<spaces(2) \o CommentD>> ELSE <<>>),
         formal |-> IF annotated THEN with_comment(List(names), CommentD)
                    ELSE List(names),
         actual |-> List((IF annotated THEN <<Str(spaces(1) \o CommentC)>> ELSE <<>>)
                         \o [k \in 1..Len(rows) |-> row(k)]),
         eos_comment |-> IF annotated THEN Str(CommentD) ELSE None]

Documents ==
    UNION { UNION { { <<Str(spaces(2) \o CommentD), Block(names, rows, annotated)>> :
                      names \in [1..n -> Names],
                      rows \in [1..r -> RowsOf(n)],
                      annotated \in BOOLEAN } :
                    r \in 0..MaxRows } :
            n \in 1..MaxCols }

\* (indent, spacing, width) within the ranges of the command line options
CliLayouts == { <<4, 2, 120>>, <<1, 1, 60>>, <<8, 8, 60>> }

InitLayout ==
    /\ NoMain
    /\ lines = <<>> /\ lineno = 0 /\ col = 0 /\ temp = <<>> /\ size = 0
    /\ gpc = "for" /\ tok = None /\ tokens = <<>>
    /\ state = "seek_file"
    /\ template = None /\ comments = None /\ formal = None
    /\ actual = None /\ actual_row = None /\ eos_comment = None
    /\ warnings = <<>> /\ error = None
    /\ indent = 0 /\ spacing = 0 /\ width = 0 /\ target = <<>> /\ gi = 0
    /\ pass = 1 /\ first = None
    /\ result \in Documents
    /\ sub_file = List(result)
    /\ pc = "parsed"

NextLayout ==
    \/ CallGenerate(CliLayouts)
    \/ Generate

SpecLayout == InitLayout /\ [][NextLayout]_vars

(***************************************************************************)
(* get_token alone: a consumer that takes every token, whatever it is.     *)
(***************************************************************************)
\* lines with tokens next to each other, in any order of kinds
TokenLines ==
    { <<>>,
      spaces(1) \o CommentC,
      Words(<<kw_file, QuotedDb, OB>>),
      Words(<<kw_pattern, OB, CommaAfter(NameX), NameY, CB>>) \o CommentD,
      OB \o CommaAfter(Quoted1) \o Quoted2 \o CB,
      spaces(2) \o Words(<<OB, <<"\"", "A", ",">>, <<"B">>, CB>>),
      Words(<<CB, CommaAfter(BareInnerQuote), BareEndQuote>>) \o spaces(1),
      NameX \o OB \o <<",">> \o CB \o kw_file \o kw_pattern,
      <<"X", "\t", "Y", ",", "\t", "Z">> }

\* next(): the consumer takes the token yielded
Drain ==
    /\ pc = "parse" /\ tok # None
    /\ tok' = None
    /\ UNCHANGED <<genVars, parVars, error, outVars, pc, runVars>>

NextTokens ==
    \/ Tokenize(TokenLines)
    \/ Drain

SpecTokens == Init /\ [][NextTokens]_vars

\* the generator and its consumer run on whenever there is a step to take
SpecTokensFair == SpecTokens /\ WF_vars(NextTokens)

(***************************************************************************)
(* main, process_argument and process_file (main.py, subtidy_lib.py) on   *)
(* files and their backups.                                                *)
(***************************************************************************)
Files == {"a", "b"}

\* the file names given to main: up to MaxArgs names, or one name MaxRuns
\* times
MaxArgs == 2
MaxRuns == 6

\* a file that parses and renders
GoodFile ==
    Text(<<Words(<<kw_file, BareDb, OB, kw_pattern, OB, NameX, CB,
                   OB, Bare1, CB, CB>>)>>)
\* a file that ends inside its block
OpenFile == Text(<<Words(<<kw_file, BareDb, OB>>)>>)
\* a comment line, then a block with a row of one value under two names
ShortRowFile ==
    Text(<<CommentC,
           Words(<<kw_file, BareDb, OB, kw_pattern, OB, CommaAfter(NameX), NameY,
                   CB, OB, Bare1, CB, CB>>)>>)

Contents == {GoodFile, OpenFile, ShortRowFile}

Args ==
    UNION {[1..n -> Files] : n \in 0..MaxArgs} \cup {[k \in 1..MaxRuns |-> "a"]}

\* a file of content c (None: no file) and no backup of it
NoBackups(c) == [k \in 0..5 |-> IF k = 0 THEN c ELSE None]

\* what backups left by earlier use hold
OldText == Text(<<CommentD>>)

\* a file of content c with backups .1~ and .4~ left by earlier use
OldBackups(c) ==
    [k \in 0..5 |-> IF k = 0 THEN c ELSE IF k \in {2, 5} THEN Str(OldText) ELSE None]

\* main(filenames) with the default indent, spacing and width; the files
\* named exist or not, with or without old backups; others are left out
InitFiles ==
    /\ lines = <<>> /\ lineno = 0 /\ col = 0 /\ temp = <<>> /\ size = 0
    /\ gpc = "for" /\ tok = None /\ tokens = <<>>
    /\ state = "seek_file" /\ result = <<>>
    /\ template = None /\ comments = None /\ formal = None
    /\ actual = None /\ actual_row = None /\ eos_comment = None
    /\ warnings = <<>> /\ error = None
    /\ indent = 4 /\ spacing = 2 /\ width = 120 /\ target = <<>> /\ gi = 0
    /\ pc = "idle" /\ pass = 2 /\ first = None /\ sub_file = None
    /\ filenames \in Args
    /\ fs \in [Files -> UNION {{NoBackups(c), OldBackups(c)} :
                                c \in {None} \cup {Str(x) : x \in Contents}}]
    /\ \A f \in Files :
          (\A k \in 1..Len(filenames) : filenames[k] # f) => fs[f] = NoBackups(None)
    /\ argi = 0 /\ status = 0 /\ mpc = "main" /\ oplog = <<>>

\* process_source is called on a text: get_token's and its own locals start
StartRun(text) ==
    /\ lines' = splitlines(text)
    /\ lineno' = 0 /\ col' = 0 /\ temp' = <<>> /\ size' = 0
    /\ gpc' = "for" /\ tok' = None /\ tokens' = <<>>
    /\ state' = "seek_file" /\ result' = <<>>
    /\ template' = None /\ comments' = None /\ formal' = None
    /\ actual' = None /\ actual_row' = None /\ eos_comment' = None
    /\ warnings' = <<>> /\ error' = None
    /\ target' = <<>> /\ gi' = 0 /\ sub_file' = None
    /\ pc' = "parse"
    /\ UNCHANGED <<indent, spacing, width, pass, first>>

\* the file name process_argument is working on
filename == filenames[argi]

Event(op, f, arg) == [op |-> op, file |-> f, arg |-> arg]

\* main with no file names: process(sys.stdin, sys.stdout, ...)
MainStdin ==
    /\ mpc = "main" /\ Len(filenames) = 0
    /\ \E text \in Contents : StartRun(text)
    /\ mpc' = "stdin"
    /\ UNCHANGED <<fs, filenames, argi, status, oplog>>

ProcessStdin ==
    /\ mpc = "stdin"
    /\ Tokenize({}) \/ Parse \/ CallGenerate({}) \/ Generate

\* what `except Exception` catches: the built-in exceptions raised here and
\* ParseError, which the package declares as an exception class of its own
IsException(e) ==
    e.t \in {"ParseError", "IndexError", "ValueError", "FileNotFoundError"}

\* process returned, or raised and main's handler sets status
MainStdinReturn ==
    /\ mpc = "stdin"
    /\ IF pc = "failed" THEN IsException(error) ELSE pc = "done"
    /\ status' = IF pc = "failed" THEN 2 ELSE status
    /\ mpc' = "returned"
    /\ UNCHANGED <<genVars, tok, parVars, error, outVars, pc, pass, first,
                   sub_file, fs, filenames, argi, oplog>>

\* for filename in filenames: process_argument is called
ForFilename ==
    /\ mpc \in {"main", "for"} /\ argi < Len(filenames)
    /\ argi' = argi + 1
    /\ oplog' = Append(oplog, Event("call", filenames[argi + 1],
                                    fs[filenames[argi + 1]][0]))
    /\ mpc' = "rotate"
    /\ UNCHANGED <<genVars, tok, parVars, error, outVars, pc, pass, first,
                   sub_file, fs, filenames, status>>

\* the for loop ends: main returns status
MainReturn ==
    /\ mpc = "for" /\ argi = Len(filenames)
    /\ mpc' = "returned"
    /\ UNCHANGED <<genVars, tok, parVars, error, outVars, pc, pass, first,
                   sub_file, fs, filenames, argi, status, oplog>>

\* os.rename(src, dst) on the file and backups b of one name
rename(b, src, dst) == [b EXCEPT ![dst] = b[src], ![src] = None]

\* the backup renamed to .1~ without the older ones moved first
RotatedNewestOnly(b) ==
    IF b[1] # None THEN rename(b, 1, 2) ELSE b

\* the backups after lines 28-43
Rotated(b) ==
    IF b[1] # None
    THEN LET s1 == IF b[2] # None
                   THEN LET s2 == IF b[3] # None
                                  THEN LET s3 == IF b[4] # None
                                                 THEN rename(b, 4, 5) ELSE b
                                       IN  rename(s3, 3, 4)
                                  ELSE b
                        IN  rename(s2, 2, 3)
                   ELSE b
         IN  rename(s1, 1, 2)
    ELSE b

Rotate ==
    /\ mpc = "rotate"
    /\ fs' = [fs EXCEPT ![filename] = Rotated(fs[filename])]
    /\ mpc' = "copy"
    /\ UNCHANGED <<genVars, tok, parVars, error, outVars, pc, pass, first,
                   sub_file, filenames, argi, status, oplog>>

\* process_argument returns s and main keeps the last value only
ReturnLast(s) ==
    /\ status' = s
    /\ oplog' = Append(oplog, Event("return", filename, s))
    /\ mpc' = "for"

\* process_argument returns s
Return(s) ==
    /\ status' = Max({status, s})
    /\ oplog' = Append(oplog, Event("return", filename, s))
    /\ mpc' = "for"

\* shutil.copy(filename, backup)
CopyBackup ==
    /\ mpc = "copy" /\ fs[filename][0] # None
    /\ fs' = [fs EXCEPT ![filename][1] = fs[filename][0]]
    /\ mpc' = "open"
    /\ UNCHANGED <<genVars, tok, parVars, error, outVars, pc, pass, first,
                   sub_file, filenames, argi, status, oplog>>

\* ... raises FileNotFoundError when there is no such file
CopyBackupRaise ==
    /\ mpc = "copy" /\ fs[filename][0] = None
    /\ error' = [t |-> "FileNotFoundError"]
    /\ IsException(error')
    /\ Return(2)
    /\ UNCHANGED <<genVars, tok, parVars, outVars, pc, pass, first, sub_file,
                   fs, filenames, argi>>

\* process_file: with open(filename, 'r') as source: process_source(source)
OpenSource ==
    /\ mpc = "open"
    /\ StartRun(fs[filename][0].v)
    /\ mpc' = "source"
    /\ UNCHANGED <<fs, filenames, argi, status, oplog>>

ProcessSource ==
    /\ mpc = "source"
    /\ Tokenize({}) \/ Parse

\* the file opened for writing while process_source is still at work
OpenTargetEarly ==
    /\ mpc = "source" /\ pc \in {"parse", "parsed"}
    /\ fs' = [fs EXCEPT ![filename][0] = Str(<<>>)]
    /\ oplog' = Append(oplog, Event("open_w", filename, 0))
    /\ mpc' = "target"
    /\ UNCHANGED <<genVars, tok, parVars, error, outVars, pc, pass, first,
                   sub_file, filenames, argi, status>>

\* with open(filename, 'w') as target: the file is created empty
OpenTarget ==
    /\ mpc = "source" /\ pc = "parsed"
    /\ fs' = [fs EXCEPT ![filename][0] = Str(<<>>)]
    /\ oplog' = Append(oplog, Event("open_w", filename, 0))
    /\ mpc' = "target"
    /\ UNCHANGED <<genVars, tok, parVars, error, outVars, pc, pass, first,
                   sub_file, filenames, argi, status>>

WriteTarget ==
    /\ mpc = "target"
    /\ CallGenerate({}) \/ Generate

\* the with block is left, by return or by exception: the file is closed
\* and holds what generate has written
CloseTarget ==
    /\ mpc = "target" /\ pc \in {"done", "failed"}
    /\ fs' = [fs EXCEPT ![filename][0] = Str(target)]
    /\ mpc' = "closed"
    /\ UNCHANGED <<genVars, tok, parVars, error, outVars, pc, pass, first,
                   sub_file, filenames, argi, status, oplog>>

\* process_file returned: return 0
ProcessArgumentReturn ==
    /\ mpc = "closed" /\ pc = "done"
    /\ Return(0)
    /\ UNCHANGED <<genVars, tok, parVars, error, outVars, pc, pass, first,
                   sub_file, fs, filenames, argi>>

\* except Exception: return 2
ProcessArgumentExcept ==
    /\ mpc \in {"source", "closed"} /\ pc = "failed"
    /\ IsException(error)
    /\ Return(2)
    /\ UNCHANGED <<genVars, tok, parVars, error, outVars, pc, pass, first,
                   sub_file, fs, filenames, argi>>

\* between two calls of process_argument the user writes a file anew
Edit ==
    /\ mpc = "for"
    /\ \E f \in Files, text \in Contents :
        /\ fs[f][0] # None /\ fs[f][0] # Str(text)
        /\ fs' = [fs EXCEPT ![f][0] = Str(text)]
    /\ UNCHANGED <<genVars, tok, parVars, error, outVars, pc, pass, first,
                   sub_file, filenames, argi, status, mpc, oplog>>

NextFiles ==
    \/ MainStdin
    \/ ProcessStdin
    \/ MainStdinReturn
    \/ ForFilename
    \/ MainReturn
    \/ Rotate
    \/ CopyBackup
    \/ CopyBackupRaise
    \/ OpenSource
    \/ ProcessSource
    \/ OpenTarget
    \/ WriteTarget
    \/ CloseTarget
    \/ ProcessArgumentReturn
    \/ ProcessArgumentExcept
    \/ Edit

SpecFiles == InitFiles /\ [][NextFiles]_vars

(***************************************************************************)
(* Properties.                                                             *)
(***************************************************************************)
\* the blocks of a Document: the indexes of its dictionaries
Blocks(doc) == {i \in 1..Len(doc) : doc[i].t = "dict"}

\* the rows of a block: the indexes of actual that are not comment lines
Rows(d) == {k \in 1..Len(d.actual.v) : d.actual.v[k].t # "str"}

\* a run (of either pass) has ended
Ended == pc \in {"done", "failed"}

\* C1: (as claimed) when the first run parsed and rendered its source, the
\* second run, on the text the first wrote and with the same layout
\* parameters, ends normally and has written exactly the same text.
C1_RenderIsNormalForm ==
    (pass = 2 /\ Ended) => (pc = "done" /\ target = first.target)

\* C2: (as claimed) when process_source does not return a Document, the
\* exception that ended it is a ParseError (with line and column).
C2_OnlyParseError ==
    (pc = "failed" /\ sub_file = None) =>
        (error.t = "ParseError" /\ error.lineno >= 1 /\ error.col >= 1)

\* the rows of block d whose number of values differs from the formal row's
MismatchRows(d) ==
    {k \in Rows(d) : Len(Unwrap(d.actual.v[k])) # Len(Unwrap(d.formal))}

\* C3: once process_source has returned a Document (so a row of another
\* length than its formal row was no parse error), generate ends normally
\* if no block has such a row, and otherwise fails at the first block that
\* has one, with the error that names the first such row as parsed, its
\* number of items and the formal row's.
C3_RowCountError ==
    (sub_file # None /\ Ended) =>
        LET bad == {i \in Blocks(sub_file.v) : MismatchRows(sub_file.v[i]) # {}}
        IN  IF bad = {} THEN pc = "done" /\ error = None
            ELSE LET d == sub_file.v[Min(bad)]
                     row == Unwrap(d.actual.v[Min(MismatchRows(d))])
                 IN  /\ pc = "failed"
                     /\ gi = Min(bad) - 1
                     /\ error = [t |-> "ValueError", row |-> row, n |-> Len(row),
                                 number |-> Len(Unwrap(d.formal))]

\* C3 witness: the first run parsed a block in which the formal row has two
\* names and a row one value, and generate failed on it.
C3_Witness ==
    /\ pass = 1 /\ pc = "failed" /\ sub_file # None
    /\ error.t = "ValueError" /\ error.n = 1 /\ error.number = 2

\* C4: (as claimed) in a run that rendered, every value of every row is
\* written in one pair of double quotes: a value the source holds in quotes
\* is written as it is, any other value with one quote added at each end.
C4_EveryValueQuotedOnce ==
    (pc = "done") =>
        \A i \in Blocks(sub_file.v) : \A k \in Rows(sub_file.v[i]) :
            LET src == Unwrap(sub_file.v[i].actual.v[k])
                out == Unwrap(result[i].actual.v[k])
            IN  \A j \in 1..Len(src) :
                    out[j] = IF startswith(src[j], <<"\"">>) THEN src[j]
                             ELSE <<"\"">> \o src[j] \o <<"\"">>

\* the lines of the text written to target
TargetLines == splitlines(target)

\* the elements of a sequence (the characters of a text)
Range(t) == {t[q] : q \in 1..Len(t)}

\* the lines of L on which a formal row, and an actual row, starts
FormalStarts(L) == {a \in 1..Len(L) : startswith(lstrip(L[a]), kw_pattern)}
RowStarts(L) == {a \in 1..Len(L) : startswith(lstrip(L[a]), OB)}

\* the line of L on which the row that starts on line a is closed
RowEnd(L, a) == Min({b \in a..Len(L) : "}" \in Range(L[b])})

\* where the values of the row that starts on line a of L start, read from
\* the text (values without blanks or commas in them): pairs <<line counted
\* from the row's first line, column>> of the characters that follow a blank
\* or start a line, between the row's braces
ValueStarts(L, a) ==
    LET b == RowEnd(L, a)
        open == find(L[a], "{", 0) + 1
        close == find(L[b], "}", 0) + 1
        starts(r) ==
            LET t == L[a + r]
            IN  {q \in 1..Len(t) :
                    IF t[q] \in {" ", ","} THEN FALSE
                    ELSE IF r = 0 /\ q <= open THEN FALSE
                    ELSE IF r = b - a /\ q >= close THEN FALSE
                    ELSE IF q = 1 THEN TRUE
                    ELSE t[q - 1] = " "}
    IN  UNION {{<<r, q>> : q \in starts(r)} : r \in 0..(b - a)}

\* the rows of the block whose formal row starts on line f of L
RowsUnder(L, f) ==
    {a \in RowStarts(L) : a > f /\ \A g \in FormalStarts(L) : g <= f \/ g > a}

\* C5: in the text generate has written, every actual row of a block has
\* its values start at the same places as the names of the block's formal
\* row: the same columns, on the same lines counted from the row's first
\* line; and there is one such place for each name.
C5_ColumnsAligned ==
    (pc = "done") =>
        \A f \in FormalStarts(TargetLines) :
            /\ \A a \in RowsUnder(TargetLines, f) :
                    ValueStarts(TargetLines, a) = ValueStarts(TargetLines, f)
            /\ \E i \in Blocks(result) :
                    Cardinality(ValueStarts(TargetLines, f))
                        = Len(Unwrap(result[i].formal))

\* C5 witness: a block of three columns was written with a row, wrapped
\* onto a second line, and with names and values of different lengths.
C5_Witness ==
    /\ pc = "done"
    /\ \E f \in FormalStarts(TargetLines) :
        /\ RowsUnder(TargetLines, f) # {}
        /\ Cardinality(ValueStarts(TargetLines, f)) = 3
        /\ \E p \in ValueStarts(TargetLines, f) : p[1] = 1
    /\ \E i \in Blocks(result) : \E k \in Rows(result[i]) :
            \E j \in 1..Len(Unwrap(result[i].formal)) :
                Len(Unwrap(result[i].formal)[j])
                    # Len(Unwrap(result[i].actual.v[k])[j])

\* a line of a row as far as its closing brace, or as far as its last
\* character that is no blank
RowLine(t) ==
    IF "}" \in Range(t) THEN upto(t, find(t, "}", 0) + 1) ELSE rstrip(t)

\* the names and values of the blocks of a Document
Items(doc) ==
    UNION {UNION ({Range(Unwrap(doc[i].formal))}
                  \cup {Range(Unwrap(doc[i].actual.v[k])) : k \in Rows(doc[i])}) :
           i \in Blocks(doc)}

\* C6: (as claimed) in the text generate has written, no line of a formal or
\* actual row is longer than width characters, unless a name or value is
\* itself longer than width.
C6_WidthRespected ==
    (pc = "done" /\ \A v \in Items(result) : Len(v) <= width) =>
        \A a \in FormalStarts(TargetLines) \cup RowStarts(TargetLines) :
            \A x \in a..RowEnd(TargetLines, a) :
                Len(RowLine(TargetLines[x])) <= width

\* a token that is a name, a value or a comma
IsItem(tk) == tk.token \in {"name", "value", "comma"}
IsFrame(tk) == ~IsItem(tk)

\* what a sequence of tokens says about comments: the tokens other than
\* names, values and commas, in order, each comment line and trailing
\* comment with its text stripped of the blanks around it.  A comment's
\* place among the keywords and braces is the element it is attached to.
Skeleton(ts) ==
    LET frame == SelectSeq(ts, IsFrame)
    IN  [k \in 1..Len(frame) |->
            <<frame[k].token,
              IF frame[k].token \in {"comment", "eol_comment"}
              THEN strip(frame[k].literal) ELSE <<>>>>]

\* the tokens of kind k among ts
OfKind(ts, k) == {q \in 1..Len(ts) : ts[q].token = k}

\* C7: when the first run parsed and rendered its source, the text it wrote
\* is parsed by the second run, and read as tokens it holds the comments of
\* the source: the same comment lines and trailing comments, with the same
\* text but for the blanks around it, in the same order and at the same
\* places among the keywords and braces of the file.
C7_CommentsPreserved ==
    (pass = 2 /\ pc # "parse") =>
        /\ sub_file # None
        /\ Skeleton(tokens) = Skeleton(first.tokens)

\* C7 witness: the second run has parsed a text in which the template line,
\* the formal row, an actual row and the closing brace each have a trailing
\* comment; and one with a comment line inside a block.
C7_Witness ==
    /\ pass = 2 /\ pc = "parsed"
    /\ Cardinality(OfKind(first.tokens, "eol_comment")) = 4
    /\ Cardinality(OfKind(tokens, "eol_comment")) = 4

C7_WitnessBlockComment ==
    /\ pass = 2 /\ pc = "parsed"
    /\ \E q \in OfKind(tokens, "comment") :
            /\ OfKind(tokens, "file") # {} /\ q > Min(OfKind(tokens, "file"))
            /\ OfKind(tokens, "close_brace") # {}
            /\ q < Max(OfKind(tokens, "close_brace"))
            /\ strip(tokens[q].literal) # <<>>

\* C8: (as claimed) generate writes a Document of raw lines only as those
\* lines, each without its trailing blanks and otherwise unchanged.
C8_RawLinesKeepIndentation ==
    (pc = "done" /\ Blocks(result) = {}) =>
        target = Text([k \in 1..Len(result) |-> rstrip(result[k].v)])

\* the scenario: four source lines, indent 4, spacing 2, width 120
ScenarioSource ==
    << Words(<<kw_file, QuotedDb, OB>>),
       spaces(1) \o Words(<<kw_pattern, OB, CommaAfter(NameX), NameY, CB>>),
       spaces(1) \o Words(<<OB, CommaAfter(Quoted1), Quoted2, CB>>),
       CB >>

ScenarioRendered ==
    pass = 1 /\ pc = "done" /\ lines = ScenarioSource
    /\ indent = 4 /\ spacing = 2 /\ width = 120

\* C9: (as claimed) the scenario is rendered with one blank after each comma
\* and before each closing brace.
C9_ScenarioAsStated ==
    ScenarioRendered =>
        target = Text(<< Words(<<kw_file, QuotedDb, OB>>),
                         spaces(4) \o Words(<<kw_pattern, OB, CommaAfter(NameX),
                                              NameY, CB>>),
                         spaces(12) \o Words(<<OB, CommaAfter(Quoted1), Quoted2,
                                               CB>>),
                         CB >>)

\* C9: the scenario is rendered with each column as wide as its widest
\* entry ("1" and "2" in their quotes: 3) and two blanks between columns:
\*     file "a.db" {
\*         pattern { X,    Y   }
\*                 { "1",  "2" }
\*     }
C9_Scenario ==
    ScenarioRendered =>
        target = Text(<< Words(<<kw_file, QuotedDb, OB>>),
                         spaces(4) \o Words(<<kw_pattern, OB, CommaAfter(NameX)>>)
                             \o spaces(4) \o NameY \o spaces(3) \o CB,
                         spaces(12) \o Words(<<OB, CommaAfter(Quoted1)>>)
                             \o spaces(2) \o Words(<<Quoted2, CB>>),
                         CB >>)

\* C9 witness: the scenario has been rendered.
C9_Witness == ScenarioRendered /\ target # <<>>

\* the list that the last token of ts closes: the place of its opening
\* brace, and the tokens between the braces
ListOpen(ts) == Max(OfKind(ts, "open_brace"))
ListItems(ts) == SubSeq(ts, ListOpen(ts) + 1, Len(ts) - 1)

\* ts ends with a list of names or values, each followed by a comma, the
\* last one too, and the closing brace
EndsWithStrayComma(ts) ==
    IF ts = <<>> THEN FALSE
    ELSE IF ts[Len(ts)].token # "close_brace" \/ OfKind(ts, "open_brace") = {}
    THEN FALSE
    ELSE LET l == ListItems(ts)
         IN  /\ Len(l) >= 2 /\ Len(l) % 2 = 0
             /\ \A q \in 1..Len(l) :
                    IF q % 2 = 1 THEN l[q].token \in {"name", "value"}
                    ELSE l[q].token = "comma"

\* the names or values of that list, in order
ListNames(ts) ==
    [q \in 1..(Len(ListItems(ts)) \div 2) |-> ListItems(ts)[2 * q - 1].literal]

\* the list is a formal list: its opening brace follows the keyword pattern
IsFormalList(ts) ==
    IF ListOpen(ts) = 1 THEN FALSE ELSE ts[ListOpen(ts) - 1].token = "pattern"

\* the warnings given at a token of the list
ListWarnings(ts) ==
    {w \in 1..Len(warnings) :
        \E q \in ListOpen(ts)..Len(ts) :
            warnings[w].lineno = ts[q].lineno /\ warnings[w].col = ts[q].col}

\* the parser has taken the last token yielded and the tokenizer has not
\* gone on from it
TakenLast ==
    /\ tok = None /\ tokens # <<>>
    /\ lineno = tokens[Len(tokens)].lineno /\ col = tokens[Len(tokens)].col

\* C10: when the parser has taken the closing brace of a formal list or of
\* an actual row whose last name or value is followed by a comma, it goes
\* on without error, the formal row (or the row added to actual) is the
\* names (values) of the list in order, and exactly one warning was given
\* at the tokens of the list.
C10_StrayTrailingComma ==
    (TakenLast /\ EndsWithStrayComma(tokens)) =>
        /\ pc = "parse"
        /\ Cardinality(ListWarnings(tokens)) = 1
        /\ IF IsFormalList(tokens)
           THEN formal = List(ListNames(tokens)) /\ state = "start_actual_first"
           ELSE /\ state = "start_actual_next"
                /\ actual.v # <<>>
                /\ actual.v[Len(actual.v)] = List(ListNames(tokens))

\* C10 witness: a formal list { X, Y, } was parsed, and then an actual row
\* of two values that ends with a comma; each gave one warning.
C10_Witness ==
    /\ TakenLast /\ EndsWithStrayComma(tokens) /\ ~IsFormalList(tokens)
    /\ pc = "parse"
    /\ formal = List(<<NameX, NameY>>)
    /\ Len(ListNames(tokens)) = 2
    /\ Len(warnings) = 2
    /\ \E q \in OfKind(tokens, "pattern") :
            /\ Len(tokens) >= q + 6
            /\ tokens[q + 5].token = "comma"
            /\ tokens[q + 6].token = "close_brace"

\* the tokenizer is at a value that starts with a double quote, with no
\* further double quote on the rest of the line
AtUnterminatedQuote ==
    /\ pc = "parse" /\ tok = None /\ gpc = "while"
    /\ startswith(temp, <<"\"">>)
    /\ find(temp, "\"", 1) < 0

\* the column, counted from 1, of the last double quote of a line
LastQuote(line) == Max({q \in 1..Len(line) : line[q] = "\""})

\* C11: at a value that starts with a double quote with no further double
\* quote on its line, the next step of the tokenizer fails with the
\* ParseError that carries the number of the line (from 1) and the column
\* (from 1) of that quote and yields no token; and after a failure no
\* token is yielded any more.
C11_MissingQuoteFails ==
    /\ [][AtUnterminatedQuote =>
            /\ pc' = "failed"
            /\ error' = ParseError(Len(lines), LastQuote(lines[Len(lines)]),
                                   "value missing trailing \"")
            /\ tokens' = tokens /\ tok' = None]_vars
    /\ [][pc = "failed" => tokens' = tokens /\ tok' = tok]_vars

\* C11 witness: the second line is `  { "A, B }`; tokenizing failed at line
\* 2, column 5, after the token of the opening brace.
C11_Witness ==
    /\ pc = "failed" /\ error.t = "ParseError"
    /\ error.lineno = 2 /\ error.col = 5
    /\ lines[2][5] = "\""
    /\ tokens # <<>>
    /\ tokens[Len(tokens)].token = "open_brace"
    /\ tokens[Len(tokens)].lineno = 2
    /\ tok = None

\* the tokens of ts are at places of the source that follow each other: on
\* a later line, or on the same line at a greater column
InSourceOrder(ts) ==
    \A a, b \in 1..Len(ts) :
        a < b => IF ts[a].lineno = ts[b].lineno THEN ts[a].col < ts[b].col
                 ELSE ts[a].lineno < ts[b].lineno

\* get_token has returned
Exhausted == gpc = "end"

\* C12: (as claimed) when get_token has returned without raising, all its
\* tokens, the end_of_file token included, are in source order with columns
\* that grow strictly within a line, and the end_of_file token is the last
\* and the only one.
C12_AllTokensInOrder ==
    Exhausted =>
        /\ InSourceOrder(tokens)
        /\ OfKind(tokens, "end_of_file") = {Len(tokens)}

\* C12: the tokens other than end_of_file are at all times in source order
\* with columns that grow strictly within a line; end_of_file is yielded
\* once, as the last token, exactly when get_token returns; it carries the
\* number of lines read and the column of the token before it (0 when the
\* source is empty), so it stands at that token's place, not after it.
C12_TokensInOrder ==
    LET n == Len(tokens)
        body == IF Exhausted THEN SubSeq(tokens, 1, n - 1) ELSE tokens
    IN  /\ InSourceOrder(body)
        /\ OfKind(tokens, "end_of_file") = IF Exhausted THEN {n} ELSE {}
        /\ Exhausted =>
               /\ tokens[n].lineno = Len(lines)
               /\ tokens[n].col = IF n = 1 THEN 0 ELSE tokens[n - 1].col
               /\ n > 1 => tokens[n - 1].lineno = Len(lines)

\* C12 witness: a source of two lines, the last a comment line, has been
\* tokenized to its end: at least three tokens before end_of_file.
C12_Witness ==
    /\ Exhausted /\ pc = "parse" /\ tok = None
    /\ Len(lines) = 2 /\ IsCommentLine(lines[2]) /\ ~IsCommentLine(lines[1])
    /\ Len(tokens) >= 5
    /\ tokens[Len(tokens) - 1].token = "comment"

\* the last entry of oplog
LastOp == oplog[Len(oplog)]

\* C13: in process_file the file is open for writing only after
\* process_source has read the source to its end and returned the Document;
\* until then the file has not been opened for writing in this call and
\* holds the content it had when process_argument was called; and when
\* process_source has failed, the next step leaves every file as it is and
\* does not open the file for writing.
C13_ParsedBeforeWritten ==
    /\ [](mpc \in {"target", "closed"} =>
            sub_file # None /\ Exhausted /\ lineno = Len(lines))
    /\ [](mpc = "source" =>
            /\ LastOp = Event("call", filename, fs[filename][0])
            /\ lines = splitlines(fs[filename][0].v))
    /\ [][(mpc = "source" /\ pc = "failed") =>
            /\ fs' = fs
            /\ mpc' # "target"
            /\ \A q \in 1..Len(oplog') : oplog'[q].op = "open_w" => q <= Len(oplog)]_vars

\* C13 witness: process_source has failed on a file that ends inside its
\* block; the file holds what it held and was not opened for writing.
C13_Witness ==
    /\ mpc = "source" /\ argi = 1 /\ pc = "failed"
    /\ error.t = "ParseError" /\ sub_file = None
    /\ oplog = <<Event("call", "a", Str(OpenFile))>>
    /\ fs["a"][0] = Str(OpenFile)

\* the token the parser holds has no branch in the dispatch
NoBranch == pc = "parse" /\ tok # None /\ <<state, tok.token>> \notin Transitions

\* the number of braces of kind k among the tokens
Braces(k) == Cardinality(OfKind(tokens, k))

\* C14: a token for whose (state, token) pair the dispatch has no branch is
\* never skipped: the parser's step on it raises a ParseError at the token's
\* line and column that names the state and the token, and leaves the
\* Document as it is; in particular an end_of_file token met in any state
\* other than seek_file fails, so that when process_source has returned a
\* Document the parser is in seek_file with no block under construction,
\* every file keyword has its block in the Document and the braces balance.
C14_NoSilentSkip ==
    /\ [][NoBranch =>
            /\ pc' = "failed"
            /\ error' = [t |-> "ParseError", lineno |-> tok.lineno,
                         col |-> tok.col,
                         msg |-> "unexpected state/token combination",
                         state |-> state, token |-> tok.token]
            /\ result' = result /\ sub_file' = sub_file]_vars
    /\ [][(pc = "parse" /\ tok # None /\ tok.token = "end_of_file"
                /\ state # "seek_file") =>
            (pc' = "failed" /\ sub_file' = None)]_vars
    /\ [](sub_file # None =>
            /\ state = "seek_file"
            /\ template = None /\ formal = None /\ actual = None
            /\ actual_row = None
            /\ tokens[Len(tokens)].token = "end_of_file"
            /\ Cardinality(OfKind(tokens, "file")) = Cardinality(Blocks(sub_file.v))
            /\ Braces("open_brace") = Braces("close_brace"))

\* C14 witness: the source ended after the formal row of a block, inside the
\* block; the parser failed on the end_of_file token, naming it.
C14_Witness ==
    /\ pc = "failed" /\ sub_file = None
    /\ error.t = "ParseError" /\ error.msg = "unexpected state/token combination"
    /\ error.token = "end_of_file" /\ error.state = "start_actual_first"
    /\ Braces("open_brace") = 2 /\ Braces("close_brace") = 1
    /\ result = <<>>

\* the tokens after the last opening brace, when that brace opens a formal
\* list or an actual row and they are names, values and commas, with the
\* closing brace at the end or not yet there; <<>> otherwise
ListSoFar(ts) ==
    IF OfKind(ts, "open_brace") = {} THEN <<>>
    ELSE LET o == ListOpen(ts)
             l == SubSeq(ts, o + 1, Len(ts))
         IN  IF /\ o > 1
                /\ ts[o - 1].token \in {"pattern", "close_brace", "comment",
                                        "eol_comment"}
                /\ Len(l) >= 1
                /\ l[1].token \in {"name", "value", "comma"}
                /\ \A q \in 1..Len(l) :
                        IF q = Len(l)
                        THEN l[q].token \in {"name", "value", "comma", "close_brace"}
                        ELSE l[q].token \in {"name", "value", "comma"}
             THEN l ELSE <<>>

\* the extra commas of a list: a comma that follows no name or value, and a
\* comma before the closing brace (counted at the brace)
ExtraCommas(l) ==
    {q \in 1..Len(l) :
        IF l[q].token \in {"comma", "close_brace"}
        THEN IF q = 1 THEN TRUE ELSE l[q - 1].token = "comma"
        ELSE FALSE}

\* the missing commas of a list: a name or value right after another
MissingCommas(l) ==
    {q \in 2..Len(l) : /\ l[q].token \in {"name", "value"}
                       /\ l[q - 1].token \in {"name", "value"}}

\* the literals of the names and values of a list, in order
RECURSIVE Literals(_)
Literals(l) ==
    IF l = <<>> THEN <<>>
    ELSE IF l[1].token \in {"name", "value"}
         THEN <<l[1].literal>> \o Literals(Tail(l))
         ELSE Literals(Tail(l))

\* the row the parser has built from the list it is in or has just closed
RowSoFar(ts) ==
    IF IsFormalList(ts) THEN formal
    ELSE IF ts[Len(ts)].token = "close_brace"
         THEN actual.v[Len(actual.v)]
         ELSE actual_row

\* C15: (as claimed) when the parser has taken a token of a formal list or
\* of an actual row made of names, values and commas, whatever the places
\* of extra and missing commas, it has not failed, the row it has built is
\* the names or values of the list in source order, and the warnings given
\* at the tokens of the list are one per extra comma and one per missing
\* comma.
C15_CommasNeverRaise ==
    (TakenLast /\ ListSoFar(tokens) # <<>>) =>
        /\ pc = "parse"
        /\ RowSoFar(tokens) = List(Literals(ListSoFar(tokens)))
        /\ Cardinality(ListWarnings(tokens))
                = Cardinality(ExtraCommas(ListSoFar(tokens)))
                    + Cardinality(MissingCommas(ListSoFar(tokens)))

\* how many braces are open after token q of ts
Depth(ts, q) ==
    Cardinality({p \in 1..q : ts[p].token = "open_brace"})
        - Cardinality({p \in 1..q : ts[p].token = "close_brace"})

\* the i-th smallest member of a set of numbers
Nth(S, i) == CHOOSE x \in S : Cardinality({y \in S : y < x}) = i - 1

\* the members of a set of places of ts, in order, each turned into e(place)
InOrder(S, e(_)) == [i \in 1..Cardinality(S) |-> e(Nth(S, i))]

\* the first token of each item of the source: a comment line outside every
\* block, or the keyword file
TopItems(ts) ==
    {q \in 1..Len(ts) : ts[q].token \in {"comment", "file"} /\ Depth(ts, q) = 0}

\* of the block whose keyword file is token f: the brace that closes it, its
\* keyword pattern, the comment lines before the pattern, and the first
\* token of each comment line and row after the formal list
BlockEnd(ts, f) ==
    Min({q \in f..Len(ts) : ts[q].token = "close_brace" /\ Depth(ts, q) = 0})
PatternOf(ts, f) == Min({q \in f..Len(ts) : ts[q].token = "pattern"})
BlockComments(ts, f) ==
    {q \in f..PatternOf(ts, f) : ts[q].token = "comment"}
ActualItems(ts, f) ==
    {q \in (PatternOf(ts, f) + 2)..BlockEnd(ts, f) :
        ts[q].token \in {"comment", "open_brace"}}

\* the names or values between the brace at p and the next closing brace
ListAt(ts, p) ==
    LET e == Min({q \in p..Len(ts) : ts[q].token = "close_brace"})
    IN  Literals(SubSeq(ts, p + 1, e - 1))

\* the item of the Document that the tokens from q on describe, without
\* trailing comments
ItemAt(ts, q) ==
    IF ts[q].token = "comment" THEN Str(ts[q].literal)
    ELSE [t |-> "dict",
          template |-> ts[q + 1].literal,
          comments |-> InOrder(BlockComments(ts, q), LAMBDA p : ts[p].literal),
          formal |-> ListAt(ts, PatternOf(ts, q) + 1),
          actual |-> InOrder(ActualItems(ts, q),
                             LAMBDA p : IF ts[p].token = "comment"
                                        THEN Str(ts[p].literal)
                                        ELSE List(ListAt(ts, p)))]

\* an item of the Document without its trailing comments
Plain(item) ==
    IF item.t = "str" THEN item
    ELSE [t |-> "dict",
          template |-> Unwrap(item.template),
          comments |-> item.comments.v,
          formal |-> Unwrap(item.formal),
          actual |-> [k \in 1..Len(item.actual.v) |->
                        IF item.actual.v[k].t = "str" THEN item.actual.v[k]
                        ELSE List(Unwrap(item.actual.v[k]))]]

\* C16: the Document process_source returns has one item for each comment
\* line outside the blocks and for each block of the source, in the order
\* of their first tokens; a block's comments are the comment lines before
\* its pattern, its formal row the names of its formal list, and its actual
\* sequence has one entry for each comment line and each row after the
\* formal list, in source order, a row being its values in order.
C16_ItemsInSourceOrder ==
    sub_file # None =>
        /\ Len(sub_file.v) = Cardinality(TopItems(tokens))
        /\ \A i \in 1..Len(sub_file.v) :
                Plain(sub_file.v[i]) = ItemAt(tokens, Nth(TopItems(tokens), i))

\* C16 witness: a returned Document of a block and a comment line after it,
\* the block with a comment line and then a row of two values.
C16_Witness ==
    /\ sub_file # None /\ pc = "parsed"
    /\ Len(sub_file.v) = 2
    /\ sub_file.v[1].t = "dict" /\ sub_file.v[2].t = "str"
    /\ Len(sub_file.v[1].actual.v) = 2
    /\ sub_file.v[1].actual.v[1].t = "str"
    /\ sub_file.v[1].actual.v[2].t # "str"
    /\ Len(Unwrap(sub_file.v[1].actual.v[2])) = 2

\* generate has returned or has raised
Generated == pc = "done" \/ (pc = "failed" /\ sub_file # None)

\* C17: (as claimed) after a call to generate, whether it returned or raised
\* on a row of the wrong length, the Document it was given has in every
\* template, formal row and actual row the strings process_source put there.
C17_GenerateOnlyReads ==
    Generated =>
        /\ Len(result) = Len(sub_file.v)
        /\ \A i \in 1..Len(result) : Plain(result[i]) = Plain(sub_file.v[i])

\* the widths of the columns of block d as the claim gives them: for column
\* j the longest of the j-th name and the j-th value, quoted, of every row
ColumnWidths(d) ==
    LET names == Unwrap(d.formal)
    IN  [j \in 1..Len(names) |->
            Max({Len(names[j])}
                \cup {Len(quote_str(Unwrap(d.actual.v[k])[j])) : k \in Rows(d)})]

\* the widths read from the row that starts on line a of L: for each value
\* start that has another after it on its line, or the closing brace, the
\* pair <<column index, width>>, the width being the distance to it less the
\* comma and the gap, or less the blank before the brace
WidthsRead(L, a, gap) ==
    LET b == RowEnd(L, a)
        close == find(L[b], "}", 0) + 1
        vs == ValueStarts(L, a)
        rank(p) == 1 + Cardinality({s \in vs : IF s[1] = p[1] THEN s[2] < p[2]
                                                ELSE s[1] < p[1]})
        after(p) == {s[2] : s \in {s \in vs : s[1] = p[1] /\ s[2] > p[2]}}
    IN  {<<rank(p), Min(after(p)) - p[2] - 1 - gap>> :
            p \in {p \in vs : after(p) # {}}}
        \cup {<<rank(p), close - p[2] - 1>> :
                p \in {p \in vs : after(p) = {} /\ p[1] = b - a}}

\* C18: when generate has written a block, the widths it has computed for
\* the block are, column by column, the longest of the formal name and the
\* quoted values of the rows, comment lines among the rows left aside and
\* trailing comments making no difference; and these are the widths read
\* from the block's formal row and from every row under it in the written
\* text.
C18_WidthsAreMaxima ==
    (pc = "done") =>
        \A i \in Blocks(sub_file.v) :
            LET d == sub_file.v[i]
            IN  /\ Measure(d).widths = ColumnWidths(d)
                /\ LET f == Nth(FormalStarts(TargetLines),
                                 Cardinality({b \in Blocks(sub_file.v) : b <= i}))
                   IN  \A a \in {f} \cup RowsUnder(TargetLines, f) :
                            \A m \in WidthsRead(TargetLines, a, spacing) :
                                m[2] = ColumnWidths(d)[m[1]]

\* C18 witness: a block with trailing comments and a comment line before its
\* row was written, whose first column takes its width from the name and
\* whose second takes it from the value, quoted by generate.
C18_Witness ==
    /\ pc = "done"
    /\ \E i \in Blocks(sub_file.v) :
        LET d == sub_file.v[i]
        IN  /\ d.formal.t = "with_comment"
            /\ Unwrap(d.formal) = <<LongName, NameX>>
            /\ Len(d.actual.v) = 2
            /\ d.actual.v[1].t = "str"
            /\ d.actual.v[2].t = "with_comment"
            /\ Unwrap(d.actual.v[2]) = <<Bare1, Bare1>>
            /\ ColumnWidths(d) = <<24, 3>>
    /\ \E f \in FormalStarts(TargetLines) :
            WidthsRead(TargetLines, f, spacing) = {<<1, 24>>, <<2, 3>>}

\* what file f held at each call of process_argument on it so far, in order
Calls(f) ==
    LET e == SelectSeq(oplog, LAMBDA x : x.op = "call" /\ x.file = f)
    IN  [k \in 1..Len(e) |-> e[k].arg]

\* no call of process_argument is under way
Between == mpc \in {"for", "returned"}

\* C19: after each run of process_argument on a file that was there at every
\* run, f.~ holds what the file held before that run and f.k~ (k = 1..4)
\* what it held before the (k+1)-th most recent run, when there were that
\* many; and in every step a backup keeps its content and stays or moves to
\* the next older place, only the content of f.4~ may be lost, and a place
\* that gets another content gets that of the next newer place (f.~ that of
\* the file).
C19_BackupGenerations ==
    /\ [](Between =>
            \A f \in Files :
                LET c == Calls(f)
                    n == Len(c)
                IN  (\A q \in 1..n : c[q] # None) =>
                        \A k \in 0..4 : n >= k + 1 => fs[f][k + 1] = c[n - k])
    /\ [][\A f \in Files :
            /\ \A k \in 1..4 :
                    fs[f][k] # None =>
                        (fs'[f][k] = fs[f][k] \/ fs'[f][k + 1] = fs[f][k])
            /\ \A k \in 1..5 :
                    (fs'[f][k] # fs[f][k] /\ fs'[f][k] # None) =>
                        fs'[f][k] = fs[f][k - 1]]_vars

\* C19 witness: after six runs on a file the user rewrote between them, so
\* that f.4~ was lost once, the five backups hold what the file held before
\* the last five runs, f.~ and f.1~ differing.
C19_Witness ==
    /\ Between /\ Len(Calls("a")) = 6
    /\ \A k \in 0..4 : fs["a"][k + 1] = Calls("a")[6 - k]
    /\ \A q \in 1..6 : Calls("a")[q] # None
    /\ fs["a"][1] # fs["a"][2]
    /\ fs["a"][5] # fs["a"][1]

\* the calls of process_argument and their returns so far, in order
CallsAndReturns == SelectSeq(oplog, LAMBDA x : x.op \in {"call", "return"})

\* the values process_argument has returned so far
Returned ==
    {oplog[q].arg : q \in {q \in 1..Len(oplog) : oplog[q].op = "return"}}

\* C20: when main has returned from a list of file names, process_argument
\* was called once for each name, in the order given, each call returning
\* before the next, and main's status is 2 when some call returned 2 and 0
\* otherwise; and a call returns 2 when an exception was raised in it and 0
\* when none was.
C20_EveryFileProcessed ==
    /\ []((mpc = "returned" /\ filenames # <<>>) =>
            /\ Len(CallsAndReturns) = 2 * Len(filenames)
            /\ \A k \in 1..Len(filenames) :
                    /\ CallsAndReturns[2 * k - 1].op = "call"
                    /\ CallsAndReturns[2 * k - 1].file = filenames[k]
                    /\ CallsAndReturns[2 * k].op = "return"
                    /\ CallsAndReturns[2 * k].file = filenames[k]
            /\ Returned \subseteq {0, 2}
            /\ status = IF 2 \in Returned THEN 2 ELSE 0)
    /\ [][Len(oplog') > Len(oplog) =>
            (oplog'[Len(oplog')].op = "return" =>
                oplog'[Len(oplog')].arg = IF error' # None THEN 2 ELSE 0)]_vars

\* C20 witness: main has returned 2 from two file names, the first of which
\* failed in process_source and the second of which was processed.
C20_Witness ==
    /\ mpc = "returned" /\ filenames = <<"a", "b">> /\ status = 2
    /\ CallsAndReturns = <<Event("call", "a", Str(OpenFile)), Event("return", "a", 2),
                           Event("call", "b", Str(GoodFile)), Event("return", "b", 0)>>
    /\ fs["b"][0] # Str(GoodFile) /\ fs["b"][1] = Str(GoodFile)
    /\ fs["a"][0] = Str(OpenFile)

\* the parser, in state st, holds an end-of-line comment
AtEolComment(st) ==
    pc = "parse" /\ tok # None /\ state = st /\ tok.token = "eol_comment"

\* C21: whenever the parser is in seek_file and holds an end-of-line comment,
\* the token before it is a closing brace on the same line, result is not
\* empty and its last item is the block that brace closed (the block of the
\* last file keyword), still without eos_comment; and the parser's step
\* stores the comment as that block's eos_comment and raises nothing.
C21_EosCommentHasItsBlock ==
    /\ [](AtEolComment("seek_file") =>
            /\ Len(tokens) >= 2
            /\ tokens[Len(tokens) - 1].token = "close_brace"
            /\ tokens[Len(tokens) - 1].lineno = tok.lineno
            /\ Len(result) >= 1
            /\ result[Len(result)].t = "dict"
            /\ result[Len(result)].eos_comment = None
            /\ Plain(result[Len(result)])
                    = ItemAt(tokens, Max(OfKind(tokens, "file"))))
    /\ [][AtEolComment("seek_file") =>
            /\ pc' = "parse" /\ error' = error
            /\ result' = [result EXCEPT
                            ![Len(result)].eos_comment = Str(tok.literal)]]_vars

\* C21 witness: the comment after the closing brace of a block has been
\* stored as the eos_comment of the block, the only item of result.
C21_Witness ==
    /\ pc = "parse" /\ tok = None /\ state = "seek_file"
    /\ tokens # <<>> /\ tokens[Len(tokens)].token = "eol_comment"
    /\ Len(result) = 1 /\ result[1].t = "dict"
    /\ result[1].eos_comment = Str(tokens[Len(tokens)].literal)

\* an element carries at most one trailing comment
WrappedOnce(x, kind) ==
    x.t = kind \/ (x.t = "with_comment" /\ x.item.t = kind)

\* C22: whenever the parser holds an end-of-line comment in seek_pattern the
\* template is a bare string, in start_actual_first the formal row is a bare
\* list, in start_actual_next actual is not empty and its last entry is a
\* bare row (no comment line, no row that has a comment already); the
\* parser's step wraps just that element with the comment and raises
\* nothing; and no element of a block in result carries more than one
\* trailing comment.
C22_TrailingCommentOnce ==
    /\ [](AtEolComment("seek_pattern") => template.t = "str")
    /\ [](AtEolComment("start_actual_first") => formal.t = "list")
    /\ [](AtEolComment("start_actual_next") =>
            /\ Len(actual.v) >= 1
            /\ actual.v[Len(actual.v)].t = "list")
    /\ [][AtEolComment("seek_pattern") =>
            /\ pc' = "parse"
            /\ template' = with_comment(template, tok.literal)
            /\ UNCHANGED <<formal, actual>>]_vars
    /\ [][AtEolComment("start_actual_first") =>
            /\ pc' = "parse"
            /\ formal' = with_comment(formal, tok.literal)
            /\ UNCHANGED <<template, actual>>]_vars
    /\ [][AtEolComment("start_actual_next") =>
            /\ pc' = "parse"
            /\ actual' = List([actual.v EXCEPT ![Len(actual.v)] =
                                with_comment(actual.v[Len(actual.v)], tok.literal)])
            /\ UNCHANGED <<template, formal>>]_vars
    /\ [](\A i \in Blocks(result) :
            /\ WrappedOnce(result[i].template, "str")
            /\ WrappedOnce(result[i].formal, "list")
            /\ \A k \in Rows(result[i]) :
                    WrappedOnce(result[i].actual.v[k], "list"))

\* C22 witness: process_source has returned a block whose template, formal
\* row and only row each carry a trailing comment.
C22_Witness ==
    /\ pc = "parsed" /\ Len(result) = 1 /\ result[1].t = "dict"
    /\ result[1].template.t = "with_comment"
    /\ result[1].formal.t = "with_comment"
    /\ Len(result[1].actual.v) = 1
    /\ result[1].actual.v[1].t = "with_comment"
    /\ result[1].actual.v[1].item.t = "list"

\* the tokenizer is about to run the body of its while loop
InWhileBody == pc = "parse" /\ tok = None /\ gpc = "while"

\* C23: every run of the body of get_token's while loop either raises or
\* yields one token and leaves temp shorter than it was; the loop is only
\* entered with temp not empty; no name or value token is empty; and
\* get_token, its tokens being taken, in the end raises or yields
\* end_of_file and returns.
C23_TokenizerTerminates ==
    /\ [][InWhileBody =>
            \/ pc' = "failed"
            \/ /\ Len(temp') < Len(temp)
               /\ Len(tokens') = Len(tokens) + 1]_vars
    /\ [](gpc = "while" => Len(temp) > 0)
    /\ [](\A q \in 1..Len(tokens) :
            tokens[q].token \in {"name", "value"} => Len(tokens[q].literal) >= 1)
    /\ <>(\/ pc = "failed"
          \/ /\ Exhausted /\ tokens # <<>>
             /\ tokens[Len(tokens)].token = "end_of_file")

\* C23 witness: get_token has returned after a line of a value with a tab
\* inside it, a comma and a name after a tab, each scanned in one run of the
\* loop body.
C23_Witness ==
    /\ Exhausted /\ pc = "parse"
    /\ Len(tokens) = 4
    /\ tokens[1].token = "value" /\ tokens[1].literal = <<"X", "\t", "Y">>
    /\ tokens[2].token = "comma"
    /\ tokens[3].token = "name" /\ tokens[3].literal = <<"Z">>
    /\ tokens[4].token = "end_of_file"

=============================================================================
